---------------------------- MODULE Spec2Model ----------------------------
(***************************************************************************)
(* Model of the scoring core of ProfessionalCreditScorer                   *)
(* (src/score_algorithm.py): the duration-string parser, the experience    *)
(* metrics of one batch and the merge of batch results.                    *)
(*                                                                         *)
(* Representation.                                                         *)
(*   - A Python str is a record [type |-> "str", s |-> chars], chars a     *)
(*     sequence of one-character strings; None is [type |-> "NoneType"].   *)
(*   - A float that the code has rounded to 2 decimals (a number of        *)
(*     years) is an integer number of hundredths; one rounded to 3         *)
(*     decimals (a rate) is an integer number of thousandths.  An          *)
(*     unrounded quotient is a fraction [num, den].  Binary floating       *)
(*     point noise (0.1 + 0.2 /= 0.3) is not modelled.                     *)
(***************************************************************************)
EXTENDS Integers, Sequences, FiniteSets, TLC

VARIABLES
    pc,             \* where the caller is: which call has returned
    duration,       \* argument of _parse_duration_string
    parsed,         \* what _parse_duration_string returned ([raised, value])
    edit,           \* the word insertion last applied to duration, or NoEdit
    professionals,  \* argument of calculate_experience_metrics and helpers
    ret,            \* what the metrics operation returned
    all_results,    \* the batch results collected for the merge
    batches_done,   \* analyze_professional_database: batches done so far
    attempt,        \* _get_gemini_analysis: the attempt being made
    log,            \* the service calls and sleeps of the run, in order
    run_status      \* the status the platform holds for the actor run

vars == <<pc, duration, parsed, edit, professionals, ret,
          all_results, batches_done, attempt, log, run_status>>

\* the variables of a run of analyze_professional_database
run_vars == <<all_results, batches_done, attempt, log>>

-----------------------------------------------------------------------------
(* Python values *)

PyStr(chars) == [type |-> "str", s |-> chars]
PyNone == [type |-> "NoneType"]
IsStr(v) == v.type = "str"
\* truthiness of a value used as `if duration:` / `if comp`
Truthy(v) == IsStr(v) /\ Len(v.s) > 0
\* len(v) of a str, 0 for a value without characters
StrLen(v) == IF IsStr(v) THEN Len(v.s) ELSE 0

Digits == <<"0", "1", "2", "3", "4", "5", "6", "7", "8", "9">>
DigitChars == {Digits[i] : i \in 1..10}
IsDigit(c) == c \in DigitChars
DigitVal(c) == (CHOOSE i \in 1..10 : Digits[i] = c) - 1
\* the characters Python's \s and str.strip() treat as white space
Whitespace == {" ", "\t", "\n"}
IsSpace(c) == c \in Whitespace

UpperCase == <<"A", "B", "C", "D", "E", "F", "G", "H", "I", "J", "K", "L", "M",
               "N", "O", "P", "Q", "R", "S", "T", "U", "V", "W", "X", "Y", "Z">>
LowerCase == <<"a", "b", "c", "d", "e", "f", "g", "h", "i", "j", "k", "l", "m",
               "n", "o", "p", "q", "r", "s", "t", "u", "v", "w", "x", "y", "z">>
\* the lower-case letter of each upper-case letter
LowerOf == [c \in {UpperCase[i] : i \in 1..26} |->
               LowerCase[CHOOSE i \in 1..26 : UpperCase[i] = c]]
LowerChar(c) == IF c \in DOMAIN LowerOf THEN LowerOf[c] ELSE c
\* str.lower()
Lower(s) == [i \in 1..Len(s) |-> LowerChar(s[i])]

\* str.strip(): drop leading and trailing white space
RECURSIVE LStrip(_)
LStrip(s) == IF s /= <<>> /\ IsSpace(s[1]) THEN LStrip(Tail(s)) ELSE s
RECURSIVE RStrip(_)
RStrip(s) ==
    IF s /= <<>> /\ IsSpace(s[Len(s)])
    THEN RStrip(SubSeq(s, 1, Len(s) - 1)) ELSE s
Strip(s) == RStrip(LStrip(s))

\* `needle in haystack` for two strings
Contains(needle, haystack) ==
    \E i \in 1..(Len(haystack) - Len(needle) + 1) :
        SubSeq(haystack, i, i + Len(needle) - 1) = needle

\* int(digits) for a non-empty run of decimal digits
RECURSIVE IntOf(_)
IntOf(ds) ==
    IF ds = <<>> THEN 0
    ELSE 10 * IntOf(SubSeq(ds, 1, Len(ds) - 1)) + DigitVal(ds[Len(ds)])

\* mutant: the quotient is cut off after the last kept decimal
RoundDown(num, den, scale) == (num * scale) \div den

\* round(num/den, k) with scale = 10^k, as an integer number of 1/scale.
\* Python rounds to nearest; an exact tie is exactly representable only
\* when the quotient is a binary fraction, and is then rounded half to even.
Round(num, den, scale) ==
    LET q == (num * scale) \div den
        r == (num * scale) % den
    IN  IF 2 * r < den THEN q
        ELSE IF 2 * r > den THEN q + 1
        ELSE IF q % 2 = 0 THEN q ELSE q + 1

-----------------------------------------------------------------------------
(* _parse_duration_string *)

YearWord == <<"y", "e", "a", "r">>
MonthWord == <<"m", "o", "n", "t", "h">>

\* the ways (\d+)\s*<unit> matches s starting at position i: <<d, w>> with
\* d >= 1 digits, then w >= 0 white-space characters, then the unit word
MatchesAt(s, i, unit) ==
    LET n == Len(s) - i + 1
        ds == IF IsDigit(s[i])
              THEN {d \in 1..n : \A j \in i..(i + d - 1) : IsDigit(s[j])}
              ELSE {}
        Rest(d) ==
            {w \in 0..(n - d - Len(unit)) :
                /\ \A j \in (i + d)..(i + d + w - 1) : IsSpace(s[j])
                /\ SubSeq(s, i + d + w, i + d + w + Len(unit) - 1) = unit}
    IN  UNION {{<<d, w>> : w \in Rest(d)} : d \in ds}

\* mutant: the match is taken at the rightmost position that matches
SearchStartRightmost(s, unit) ==
    LET starts == {i \in 1..Len(s) : MatchesAt(s, i, unit) /= {}}
    IN  IF starts = {} THEN 0
        ELSE CHOOSE i \in starts : \A j \in starts : j <= i

\* mutant: re.match instead of re.search, the match must start the text
SearchStartAnchored(s, unit) ==
    IF Len(s) >= 1 /\ MatchesAt(s, 1, unit) /= {} THEN 1 ELSE 0

\* where re.search starts its match: the leftmost position that matches
SearchStart(s, unit) ==
    LET starts == {i \in 1..Len(s) : MatchesAt(s, i, unit) /= {}}
    IN  IF starts = {} THEN 0
        ELSE CHOOSE i \in starts : \A j \in starts : i <= j

\* re.search(r'(\d+)\s*<unit>', s): group(1) of the leftmost match, with the
\* greedy \d+ taking the longest run that lets the rest match; <<>> for None
ReSearchGroup1(s, unit) ==
    LET i == SearchStart(s, unit)
    IN  IF i = 0 THEN <<>>
        ELSE LET ds == {dw[1] : dw \in MatchesAt(s, i, unit)}
                 d  == CHOOSE x \in ds : \A y \in ds : y <= x
             IN  SubSeq(s, i, i + d - 1)

\* the try block, lines 615-631: [raised, value]; a non-str argument has no
\* .lower() and raises AttributeError
ParseBody(d) ==
    IF ~IsStr(d) THEN [raised |-> TRUE, value |-> 0]
    ELSE LET text == Strip(Lower(d.s))
             year_match == ReSearchGroup1(text, YearWord)
             month_match == ReSearchGroup1(text, MonthWord)
             years == IF year_match /= <<>> THEN IntOf(year_match) ELSE 0
             months == IF month_match /= <<>> THEN IntOf(month_match) ELSE 0
         IN  [raised |-> FALSE, value |-> Round(12 * years + months, 12, 100)]

\* mutant: no except clause, the exception of the body reaches the caller
ParseCallPropagates(d) == ParseBody(d)

\* a call of _parse_duration_string as its caller sees it: `except Exception:
\* return 0.0` turns every exception of the body into the value 0.0
ParseCall(d) ==
    LET body == ParseBody(d)
    IN  IF body.raised THEN [raised |-> FALSE, value |-> 0] ELSE body

\* the float _parse_duration_string returns, in hundredths of a year
_parse_duration_string(d) == ParseCall(d).value

-----------------------------------------------------------------------------
(* Duration strings given to the parser *)

\* most tokens of one generated duration string
MaxTokens == 5
\* most tokens of a generated string into which a word is then inserted
MaxInsTokens == 3

Tokens ==
    { <<"1">>, <<"2">>, <<" ">>,
      <<"Y", "e", "a", "r", "s">>,
      <<"m", "o", "n", "t", "h">>,
      <<"a", "n", "d">> }

RECURSIVE TokenStrings(_)
TokenStrings(n) ==
    IF n = 0 THEN {<<>>}
    ELSE LET shorter == TokenStrings(n - 1)
         IN  shorter \cup {s \o t : s \in shorter, t \in Tokens}

\* the strings of test_parse_duration_string (src/test_score_algorithm.py)
Str_2y3m == <<"2"," ","y","e","a","r","s"," ","3"," ","m","o","n","t","h","s">>
Str_1y == <<"1"," ","y","e","a","r">>
Str_6m == <<"6"," ","m","o","n","t","h","s">>
Str_1y6m == <<"1"," ","y","e","a","r"," ","6"," ","m","o","n","t","h","s">>
Str_3y9m == <<"3"," ","y","e","a","r","s"," ","9"," ","m","o","n","t","h","s">>
Str_empty == <<>>
Str_invalid == <<"i","n","v","a","l","i","d">>
Str_2y_and_3m ==
    <<"2"," ","y","e","a","r","s"," ","a","n","d"," ","3"," ","m","o","n","t","h","s">>

TestStrings ==
    {Str_2y3m, Str_1y, Str_6m, Str_1y6m, Str_3y9m, Str_empty, Str_invalid,
     Str_2y_and_3m}

DurationInputs ==
    {PyStr(s) : s \in TokenStrings(MaxTokens) \cup TestStrings} \cup {PyNone}

\* extraneous words: no digit, no unit word
ExtraWords ==
    { <<"a", "n", "d">>,
      <<" ", "a", "n", "d">>,
      <<"a", "p", "p", "r", "o", "x">> }

InsertBases == {PyStr(s) : s \in TokenStrings(MaxInsTokens) \cup TestStrings}

\* s with word w put after its first p characters
Insert(s, p, w) == SubSeq(s, 1, p) \o w \o SubSeq(s, p + 1, Len(s))

NoEdit == [before |-> PyNone, at |-> 0, word |-> <<>>, value |-> 0]
NoRet == [op |-> "none"]

\* no run of analyze_professional_database is under way
NoRun ==
    /\ all_results = <<>>
    /\ batches_done = 0
    /\ attempt = 0
    /\ log = <<>>

-----------------------------------------------------------------------------
(* The parser called on its own *)

InitParse ==
    /\ pc = "ready"
    /\ duration \in DurationInputs
    /\ parsed = [raised |-> FALSE, value |-> 0]
    /\ edit = NoEdit
    /\ professionals = <<>>
    /\ ret = NoRet
    /\ NoRun
    /\ run_status = "none"

\* the caller calls _parse_duration_string(duration)
Parse ==
    /\ pc \in {"ready", "edited"}
    /\ parsed' = ParseCall(duration)
    /\ pc' = IF pc = "ready" THEN "parsed" ELSE "reparsed"
    /\ UNCHANGED <<run_status, duration, edit, professionals, ret>>
    /\ UNCHANGED run_vars

\* the next input is the last one with an extraneous word added at p
InsertWord(p, w) ==
    /\ pc = "parsed"
    /\ duration \in InsertBases
    /\ duration' = PyStr(Insert(duration.s, p, w))
    /\ edit' = [before |-> duration, at |-> p, word |-> w, value |-> parsed.value]
    /\ pc' = "edited"
    /\ UNCHANGED <<run_status, parsed, professionals, ret>>
    /\ UNCHANGED run_vars

NextParse ==
    \/ Parse
    \/ \E w \in ExtraWords : \E p \in 0..StrLen(duration) : InsertWord(p, w)

SpecParse == InitParse /\ [][NextParse]_vars

-----------------------------------------------------------------------------
(* Experience metrics of one batch: calculate_experience_metrics and its
   helpers.  A dict is a record; dict.get(key, default) is Get. *)

Get(rec, key, default) == IF key \in DOMAIN rec THEN rec[key] ELSE default

EmptyStr == PyStr(<<>>)

\* the value of a local name that is assigned once and read many times: the
\* one element of the set of what it is assigned
Only(S) == CHOOSE x \in S : TRUE

RECURSIVE SumSeq(_)
SumSeq(q) == IF q = <<>> THEN 0 ELSE q[1] + SumSeq(Tail(q))

\* a fraction num/den, the float a division returns before any rounding
Frac(n, d) == [num |-> n, den |-> d]
\* the literal 0.0
Zero == Frac(0, 1)
FracEq(a, b) == a.num * b.den = b.num * a.den

\* mutant: the list is left in the order of the batch
Unsorted(q) == q

\* list.sort() on numbers: insertion into the sorted prefix
RECURSIVE SortedList(_)
SortedList(q) ==
    IF q = <<>> THEN <<>>
    ELSE LET rest == SortedList(Tail(q))
             k == Cardinality({j \in 1..Len(rest) : rest[j] < q[1]})
         IN  SubSeq(rest, 1, k) \o <<q[1]>> \o SubSeq(rest, k + 1, Len(rest))

\* mutant: the first number of the list is given as its greatest
FirstOfList(q) == q[1]

\* min() and max() of a non-empty list
MinOf(q) == CHOOSE x \in {q[j] : j \in 1..Len(q)} : \A j \in 1..Len(q) : x <= q[j]
MaxOf(q) == CHOOSE x \in {q[j] : j \in 1..Len(q)} : \A j \in 1..Len(q) : q[j] <= x

\* _calculate_years_from_experience: the sum of the parsed durations of the
\* entries whose duration is truthy, in hundredths of a year
_calculate_years_from_experience(experience) ==
    Only({SumSeq(years) :
            years \in {[j \in 1..Len(experience) |->
                          LET dur == Get(experience[j], "duration", EmptyStr)
                          IN  IF Truthy(dur) THEN _parse_duration_string(dur)
                              ELSE 0]}})

\* {} as a default of dict.get
EmptyDict == <<>>

\* a value the code can call .get on: neither None nor a str
IsDict(v) == "type" \notin DOMAIN v

\* mutant: a record without the key counts as holding one job of a year
ExperienceOrOneJob(prof) == Get(prof, "experience", <<[duration |-> PyStr(Str_1y)]>>)

\* prof.get('experience', [])
ExperienceOf(prof) == Get(prof, "experience", <<>>)

\* mutant: only the first, most recent entry is parsed
YearsOfFirstEntry(prof) ==
    LET experience == ExperienceOf(prof)
    IN  IF Len(experience) > 0
        THEN _calculate_years_from_experience(SubSeq(experience, 1, 1))
        ELSE 0

\* what the loop of lines 417-425 computes for one professional: the years
\* it appends to experience_years, or 0 when it appends nothing
YearsCounted(prof) ==
    LET experience == ExperienceOf(prof)
    IN  IF Len(experience) > 0
        THEN _calculate_years_from_experience(experience)
        ELSE 0

IsPositive(y) == y > 0

-----------------------------------------------------------------------------
(* _calculate_career_progression_rate *)

Kw_junior == <<"j","u","n","i","o","r">>
Kw_senior == <<"s","e","n","i","o","r">>
Kw_assistant == <<"a","s","s","i","s","t","a","n","t">>
Kw_manager == <<"m","a","n","a","g","e","r">>
Kw_developer == <<"d","e","v","e","l","o","p","e","r">>
Kw_lead == <<"l","e","a","d">>
Kw_analyst == <<"a","n","a","l","y","s","t">>
Kw_director == <<"d","i","r","e","c","t","o","r">>
Kw_principal == <<"p","r","i","n","c","i","p","a","l">>
Kw_head == <<"h","e","a","d">>
Kw_chief == <<"c","h","i","e","f">>
Kw_vp == <<"v","p">>
Kw_clevel == <<"c","-","l","e","v","e","l">>
Kw_associate == <<"a","s","s","o","c","i","a","t","e">>
Kw_entry == <<"e","n","t","r","y">>
Kw_intern == <<"i","n","t","e","r","n">>

\* patterns 1-4: <<earlier keyword, later keyword>>
PairPatterns ==
    { <<Kw_junior, Kw_senior>>, <<Kw_assistant, Kw_manager>>,
      <<Kw_developer, Kw_lead>>, <<Kw_analyst, Kw_director>> }
senior_keywords ==
    { Kw_senior, Kw_lead, Kw_principal, Kw_director, Kw_manager, Kw_head,
      Kw_chief, Kw_vp, Kw_clevel }
junior_keywords == { Kw_junior, Kw_assistant, Kw_associate, Kw_entry, Kw_intern }

\* job_titles = [exp.get('position', '').lower() for exp in experience]
JobTitles(experience) ==
    [j \in 1..Len(experience) |->
        Lower(Get(experience[j], "position", EmptyStr).s)]

\* mutant: both words of the pair are looked for in all titles
PairMatchesAnywhere(job_titles, pat) ==
    /\ \E j \in 1..Len(job_titles) : Contains(pat[1], job_titles[j])
    /\ \E j \in 1..Len(job_titles) : Contains(pat[2], job_titles[j])

\* pattern <<a, b>>: a in some title of job_titles[:-1], b in one of [1:]
PairMatches(job_titles, pat) ==
    /\ \E j \in 1..(Len(job_titles) - 1) : Contains(pat[1], job_titles[j])
    /\ \E j \in 2..Len(job_titles) : Contains(pat[2], job_titles[j])

\* pattern 5: junior keyword in job_titles[0], senior keyword in job_titles[-1]
GeneralMatches(job_titles) ==
    /\ \E kw \in junior_keywords : Contains(kw, job_titles[1])
    /\ \E kw \in senior_keywords : Contains(kw, job_titles[Len(job_titles)])

\* how many of the five `if` statements of lines 483-503 fire
PatternsFired(job_titles) ==
    Cardinality({pat \in PairPatterns : PairMatches(job_titles, pat)})
        + (IF GeneralMatches(job_titles) THEN 1 ELSE 0)

\* mutant: progression_indicators grows once per pattern that fires
IndicatorPerPattern(experience) == PatternsFired(JobTitles(experience))

\* what one professional with >= 2 entries adds to progression_indicators:
\* progression_found is a flag, so at most 1
ProgressionIndicator(experience) ==
    IF PatternsFired(JobTitles(experience)) > 0 THEN 1 ELSE 0

_calculate_career_progression_rate(profs) ==
    LET counted == {i \in 1..Len(profs) : Len(ExperienceOf(profs[i])) >= 2}
        total_professionals == Cardinality(counted)
        progression_indicators ==
            SumSeq([i \in 1..Len(profs) |->
                        IF i \in counted
                        THEN ProgressionIndicator(ExperienceOf(profs[i]))
                        ELSE 0])
    IN  IF total_professionals = 0 THEN Zero
        ELSE Frac(progression_indicators, total_professionals)

-----------------------------------------------------------------------------
(* _calculate_industry_stability_score *)

\* companies of one professional, empty values removed (lines 532-533)
Companies(experience) ==
    LET all == [j \in 1..Len(experience) |->
                    Get(experience[j], "companyName", EmptyStr)]
    IN  SelectSeq(all, Truthy)

\* line 549 is reached by a professional with an entry and a non-empty
\* company name; unique_companies is an int there, and len() of an int
\* raises TypeError
ReachesLine549(prof) ==
    LET experience == ExperienceOf(prof)
    IN  Len(experience) >= 1 /\ Len(Companies(experience)) > 0

\* the try block, lines 523-562: [raised, value].  A professional that
\* reaches line 549 raises; one that does not, left the loop body at the
\* `continue` of line 536 and earned nothing.
StabilityBody(profs) ==
    LET counted == {i \in 1..Len(profs) : Len(ExperienceOf(profs[i])) >= 1}
        total_professionals == Cardinality(counted)
        stability_indicators == 0
    IN  IF \E i \in 1..Len(profs) : ReachesLine549(profs[i])
        THEN [raised |-> TRUE, value |-> Zero]
        ELSE IF total_professionals = 0
        THEN [raised |-> FALSE, value |-> Zero]
        ELSE [raised |-> FALSE,
              value |-> Frac(stability_indicators, total_professionals * 4)]

\* mutant: line 549 compares the number of distinct companies, so that a
\* record that reaches it earns the point of having at most two of them
StabilityWithThirdIndicator(profs) ==
    LET counted == {i \in 1..Len(profs) : Len(ExperienceOf(profs[i])) >= 1}
        earned == {i \in counted : ReachesLine549(profs[i])}
    IN  IF counted = {} THEN Zero
        ELSE Frac(Cardinality(earned), Cardinality(counted) * 4)

\* `except Exception: return 0.0`
_calculate_industry_stability_score(profs) ==
    LET body == StabilityBody(profs)
    IN  IF body.raised THEN Zero ELSE body.value

-----------------------------------------------------------------------------
(* _calculate_average_job_tenure *)

\* mutant: every entry with a non-empty duration is a job, `if years > 0`
\* is missing
TenuresOfNonEmpty(prof) ==
    LET experience == ExperienceOf(prof)
        Dur(j) == Get(experience[j], "duration", EmptyStr)
        idx == SelectSeq([j \in 1..Len(experience) |-> j],
                         LAMBDA j : Truthy(Dur(j)))
    IN  [n \in 1..Len(idx) |-> _parse_duration_string(Dur(idx[n]))]

\* the parsed durations one professional adds to total_tenure (lines
\* 577-585): one per entry with a truthy duration that parses to more than 0
TenuresOf(prof) ==
    LET experience == ExperienceOf(prof)
        ys == [j \in 1..Len(experience) |->
                  LET dur == Get(experience[j], "duration", EmptyStr)
                  IN  IF Truthy(dur) THEN _parse_duration_string(dur) ELSE 0]
    IN  SelectSeq(ys, IsPositive)

RECURSIVE TenuresCounted(_)
TenuresCounted(profs) ==
    IF profs = <<>> THEN <<>>
    ELSE TenuresOf(profs[1]) \o TenuresCounted(Tail(profs))

_calculate_average_job_tenure(profs) ==
    Only({IF Len(tenures) = 0 THEN Zero
          ELSE Frac(SumSeq(tenures), Len(tenures)) :
            tenures \in {TenuresCounted(profs)}})

-----------------------------------------------------------------------------
(* calculate_experience_metrics *)

\* lines 427-456, once the loop has filled experience_years.  Years are
\* hundredths, rates thousandths.  The pooled durations are whole quarters of
\* a year, so the sums and the ties of round() are exact in binary and
\* round() takes a tie to the even neighbour.
MetricsOf(profs, experience_years) ==
    LET professionals_with_experience == Len(experience_years)
        total_experience == SumSeq(experience_years)
    IN  IF professionals_with_experience = 0
        THEN [average_years |-> 0,
              total_professionals |-> Len(profs),
              professionals_with_experience |-> 0,
              career_progression_rate |-> 0,
              industry_stability_score |-> 0,
              average_job_tenure |-> 0]
        ELSE Only({
             [average_years |->
                  Round(total_experience, professionals_with_experience, 1),
              median_years |-> sorted[(Len(sorted) \div 2) + 1],
              total_professionals |-> Len(profs),
              professionals_with_experience |-> professionals_with_experience,
              min_years |-> MinOf(sorted),
              max_years |-> MaxOf(sorted),
              career_progression_rate |-> Round(rate.num, rate.den, 1000),
              industry_stability_score |-> Round(score.num, score.den, 1000),
              average_job_tenure |-> Round(tenure.num, tenure.den, 1)] :
                sorted \in {SortedList(experience_years)},
                rate \in {_calculate_career_progression_rate(profs)},
                score \in {_calculate_industry_stability_score(profs)},
                tenure \in {_calculate_average_job_tenure(profs)}})

\* the try body raises AttributeError at `prof.get` for a record that is not
\* a dict and at `exp.get` for an entry of its experience that is not one
MetricsRaises(profs) ==
    \E i \in 1..Len(profs) :
        \/ ~IsDict(profs[i])
        \/ \E j \in 1..Len(ExperienceOf(profs[i])) :
              ~IsDict(ExperienceOf(profs[i])[j])

calculate_experience_metrics(profs) ==
    IF MetricsRaises(profs)
    THEN \* the except branch, lines 458-460
         [average_years |-> 0, error |-> "AttributeError"]
    ELSE Only({MetricsOf(profs, experience_years) :
                 experience_years \in
                     {SelectSeq([i \in 1..Len(profs) |-> YearsCounted(profs[i])],
                                IsPositive)}})

-----------------------------------------------------------------------------
(* _handle_large_dataset_fallback, _analyze_batch, _aggregate_batch_results *)

ZeroDistribution ==
    [entry_level_0_2_years |-> 0, mid_level_3_7_years |-> 0,
     senior_level_8_15_years |-> 0, executive_level_15_plus_years |-> 0]

ZeroSummary ==
    [total_professionals_analyzed |-> 0,
     professionals_with_experience_data |-> 0,
     average_years_experience |-> 0,
     median_years_experience |-> 0,
     experience_range |-> [minimum |-> 0, maximum |-> 0]]

ZeroInsights ==
    [average_job_tenure |-> 0, career_progression_rate |-> 0,
     industry_stability_score |-> 0]

\* mutant: the empty analysis passes for a completed one
EmptyAnalysisCompleted ==
    [analysis_summary |-> ZeroSummary,
     experience_distribution |-> ZeroDistribution,
     career_insights |-> ZeroInsights,
     detailed_analysis |-> "No data available for analysis",
     status |-> "completed"]

_create_empty_analysis ==
    [analysis_summary |-> ZeroSummary,
     experience_distribution |-> ZeroDistribution,
     career_insights |-> ZeroInsights,
     detailed_analysis |-> "No data available for analysis",
     status |-> "no_data"]

\* lines 305-333: the batch result built from manual_metrics once the
\* professionals of the batch are at hand
ManualFallbackResult(profs) ==
    Only({
      [analysis_summary |->
          [total_professionals_analyzed |-> Len(profs),
           professionals_with_experience_data |->
               Get(manual_metrics, "professionals_with_experience", 0),
           average_years_experience |-> Get(manual_metrics, "average_years", 0),
           median_years_experience |-> Get(manual_metrics, "median_years", 0),
           experience_range |->
               [minimum |-> Get(manual_metrics, "min_years", 0),
                maximum |-> Get(manual_metrics, "max_years", 0)]],
       career_insights |->
          [average_job_tenure |-> Get(manual_metrics, "average_job_tenure", 0),
           career_progression_rate |->
               Get(manual_metrics, "career_progression_rate", 0),
           industry_stability_score |->
               Get(manual_metrics, "industry_stability_score", 0)],
       experience_distribution |-> ZeroDistribution,
       calculation_method |-> "manual_fallback_timeout",
       manual_metrics |-> manual_metrics] :
          manual_metrics \in {calculate_experience_metrics(profs)}})

\* lines 153-160: _analyze_batch adds the batch metadata to a result
\* mutant: batch_number and total_batches change places
WithBatchInfoSwapped(analysis_result, batch_num, total_batches, batch_len) ==
    [k \in DOMAIN analysis_result \cup {"batch_info"} |->
        IF k = "batch_info"
        THEN [batch_number |-> total_batches,
              total_batches |-> batch_num,
              professionals_in_batch |-> batch_len]
        ELSE analysis_result[k]]

WithBatchInfo(analysis_result, batch_num, total_batches, batch_len) ==
    [k \in DOMAIN analysis_result \cup {"batch_info"} |->
        IF k = "batch_info"
        THEN [batch_number |-> batch_num,
              total_batches |-> total_batches,
              professionals_in_batch |-> batch_len]
        ELSE analysis_result[k]]

\* mutant: every batch enters the mean, `> 0` is not asked
InsightValuesOfAll(batch_results, key) ==
    [b \in 1..Len(batch_results) |->
        Get(Get(batch_results[b], "career_insights", EmptyDict), key, 0)]

\* the values of one career insight that enter its mean (lines 660-665):
\* those strictly greater than 0, in batch order
InsightValues(batch_results, key) ==
    SelectSeq([b \in 1..Len(batch_results) |->
                  Get(Get(batch_results[b], "career_insights", EmptyDict),
                      key, 0)],
              IsPositive)

\* mutant: the collected values are added up and never divided
SumOutcomes(vals, grain) == {SumSeq(vals)}

\* round(sum(vals) / len(vals), k) for values that are multiples of 10^-k,
\* 0.0 for no value (lines 668-670, 687-689).  The result is the nearest
\* multiple; on a tie round() sees the exact half, and takes the even
\* neighbour, only if every value is a multiple of the binary grain (1/4 for
\* hundredths, 1/8 for thousandths); otherwise the float lies a little to
\* one side and either neighbour can come out.
MeanOutcomes(vals, grain) ==
    IF vals = <<>> THEN {0}
    ELSE LET n == Len(vals)
             q == SumSeq(vals) \div n
             r == SumSeq(vals) % n
         IN  IF 2 * r < n THEN {q}
             ELSE IF 2 * r > n THEN {q + 1}
             ELSE IF \A j \in 1..n : vals[j] % grain = 0
             THEN {IF q % 2 = 0 THEN q ELSE q + 1}
             ELSE {q, q + 1}

\* mutant: the counts are read from the batch metadata
BatchInfoCount(batch_result, key) ==
    Get(Get(batch_result, "batch_info", EmptyDict), "professionals_in_batch", 0)

\* summary.get(key, 0) of one batch result (lines 653, 656-657)
SummaryCount(batch_result, key) ==
    Get(Get(batch_result, "analysis_summary", EmptyDict), key, 0)

\* the try block of _aggregate_batch_results, lines 638-702: [raised,
\* values], values the dicts it can return.  A batch result, or an
\* analysis_summary, career_insights or batch_info of one, that is None has
\* no .get: AttributeError.
AggregateBody(batch_results, total_professionals) ==
    LET Summary(b) == Get(batch_results[b], "analysis_summary", EmptyDict)
        Insights(b) == Get(batch_results[b], "career_insights", EmptyDict)
        Info(b) == Get(batch_results[b], "batch_info", EmptyDict)
        total_analyzed ==
            SumSeq([b \in 1..Len(batch_results) |->
                       SummaryCount(batch_results[b],
                                    "total_professionals_analyzed")])
        total_with_experience ==
            SumSeq([b \in 1..Len(batch_results) |->
                       SummaryCount(batch_results[b],
                                    "professionals_with_experience_data")])
    IN  IF \E b \in 1..Len(batch_results) :
               \/ ~IsDict(batch_results[b])
               \/ ~IsDict(Summary(b))
               \/ ~IsDict(Insights(b))
               \/ ~IsDict(Info(b))
        THEN [raised |-> TRUE, values |-> {}]
        ELSE [raised |-> FALSE,
              values |->
        { [analysis_summary |->
              [total_professionals_analyzed |-> total_analyzed,
               professionals_with_experience_data |-> total_with_experience,
               total_batches_processed |-> Len(batch_results),
               analysis_scope |->
                   [professionals |-> total_professionals,
                    batches |-> Len(batch_results)]],
           experience_distribution |-> ZeroDistribution,
           career_insights |->
              [average_job_tenure |-> t,
               career_progression_rate |-> p,
               industry_stability_score |-> s],
           calculation_method |-> "batched_ai_analysis",
           batch_details |->
              [b \in 1..Len(batch_results) |->
                  [batch_number |-> Get(Info(b), "batch_number", 0),
                   professionals_analyzed |->
                       Get(Info(b), "professionals_in_batch", 0)]]] :
          t \in MeanOutcomes(InsightValues(batch_results, "average_job_tenure"), 25),
          p \in MeanOutcomes(InsightValues(batch_results, "career_progression_rate"), 125),
          s \in MeanOutcomes(InsightValues(batch_results, "industry_stability_score"), 125) }]

\* mutant: `if not batch_results: return None` before the try
AggregateNoneIfEmpty(batch_results, total_professionals) ==
    IF batch_results = <<>> THEN {PyNone}
    ELSE {_create_empty_analysis}

\* the dicts _aggregate_batch_results can return for these batch results;
\* `except Exception: return self._create_empty_analysis()`
_aggregate_batch_results(batch_results, total_professionals) ==
    Only({IF body.raised THEN {_create_empty_analysis} ELSE body.values :
            body \in {AggregateBody(batch_results, total_professionals)}})

-----------------------------------------------------------------------------
(* Batches given to the metrics *)

\* most professionals in a batch, most experience entries in a batch
MaxProfs == 3
MaxJobs == 3
\* a career batch: most experience entries, and professionals enough for
\* two entries each
MaxCareerJobs == 4
MaxCareerProfs == MaxCareerJobs \div 2

Str_7y6m == <<"7"," ","y","e","a","r","s"," ","6"," ","m","o","n","t","h","s">>

\* entries as the tests write them: the duration alone
DurationEntries ==
    { [duration |-> PyStr(Str_3y9m)],
      [duration |-> PyStr(Str_7y6m)],
      [duration |-> PyStr(Str_invalid)],
      [duration |-> EmptyStr] }

Title_JuniorDeveloper ==
    <<"J","u","n","i","o","r"," ","D","e","v","e","l","o","p","e","r">>
Title_SeniorDeveloper ==
    <<"S","e","n","i","o","r"," ","D","e","v","e","l","o","p","e","r">>
Title_TeamLead == <<"T","e","a","m"," ","L","e","a","d">>
Name_Acme == <<"A","c","m","e">>
Name_Globex == <<"G","l","o","b","e","x">>

\* entries as the scraper stores them
Junior ==
    [position |-> PyStr(Title_JuniorDeveloper), companyName |-> PyStr(Name_Acme),
     duration |-> PyStr(Str_3y9m)]
Senior ==
    [position |-> PyStr(Title_SeniorDeveloper), companyName |-> PyStr(Name_Acme),
     duration |-> PyStr(Str_1y6m)]
TeamLead ==
    [position |-> PyStr(Title_TeamLead), companyName |-> PyStr(Name_Globex),
     duration |-> EmptyStr]
\* an entry without position and companyName: both are read with the
\* default '' (lines 477 and 532)
Untitled == [duration |-> PyStr(Str_3y9m)]
CareerEntries == {Junior, Senior, TeamLead, Untitled}

\* a professional stored without an experience key, and one with an
\* experience list still empty
NoExperienceKey == [unique_id |-> "3"]
NewProfessionals == {NoExperienceKey, [experience |-> <<>>]}

TotalJobs(profs) ==
    SumSeq([i \in 1..Len(profs) |-> Len(ExperienceOf(profs[i]))])

InitBatch ==
    /\ pc = "build"
    /\ professionals = <<>>
    /\ ret = NoRet
    /\ duration = EmptyStr
    /\ parsed = [raised |-> FALSE, value |-> 0]
    /\ edit = NoEdit
    /\ NoRun
    /\ run_status = "none"

\* the store holds one more professional
AddProfessional(prof, maxProfs) ==
    /\ pc = "build"
    /\ Len(professionals) < maxProfs
    /\ professionals' = Append(professionals, prof)
    /\ UNCHANGED <<run_status, pc, ret, duration, parsed, edit>>
    /\ UNCHANGED run_vars

\* the last professional has one more (older) experience entry
AddExperience(entry, maxJobs) ==
    /\ pc = "build"
    /\ Len(professionals) > 0
    /\ "experience" \in DOMAIN professionals[Len(professionals)]
    /\ TotalJobs(professionals) < maxJobs
    /\ professionals' =
          [professionals EXCEPT ![Len(professionals)].experience =
              Append(@, entry)]
    /\ UNCHANGED <<run_status, pc, ret, duration, parsed, edit>>
    /\ UNCHANGED run_vars

Returns(op, value) ==
    /\ pc = "build"
    /\ pc' = op
    /\ ret' = [op |-> op, value |-> value]
    /\ UNCHANGED <<run_status, professionals, duration, parsed, edit>>
    /\ UNCHANGED run_vars

CalcMetrics == Returns("metrics", calculate_experience_metrics(professionals))
CalcTenure == Returns("tenure", _calculate_average_job_tenure(professionals))
CalcProgression ==
    Returns("progression", _calculate_career_progression_rate(professionals))
CalcStability ==
    Returns("stability", _calculate_industry_stability_score(professionals))

\* mutant: only full batches are cut, the rest of the store is left out
FullBatchesAt(profs, batch_size) ==
    [b \in 1..(Len(profs) \div batch_size) |->
        SubSeq(profs, (b - 1) * batch_size + 1, b * batch_size)]

\* lines 103-112: the slices of batch_size professionals, the last one
\* shorter; batch_size is 75 in the code and a parameter here
BatchesAt(profs, batch_size) ==
    LET total_batches == (Len(profs) + batch_size - 1) \div batch_size
    IN  [b \in 1..total_batches |->
            LET start_idx == (b - 1) * batch_size
                end_idx == IF start_idx + batch_size < Len(profs)
                           THEN start_idx + batch_size ELSE Len(profs)
            IN  SubSeq(profs, start_idx + 1, end_idx)]

\* the batch results whose figures are the manual metrics of each batch
\* (the dict of lines 305-333), each with its batch metadata
BatchResultsAt(profs, batch_size) ==
    LET batches == BatchesAt(profs, batch_size)
    IN  [b \in 1..Len(batches) |->
            WithBatchInfo(ManualFallbackResult(batches[b]), b, Len(batches),
                          Len(batches[b]))]

\* the report _aggregate_batch_results makes of these batch results
Report(batch_size) ==
    /\ Len(professionals) > 0
    /\ \E batch_results \in {BatchResultsAt(professionals, batch_size)} :
          \E report \in _aggregate_batch_results(batch_results,
                                                  Len(professionals)) :
              Returns("report", [batch_size |-> batch_size, report |-> report])

NextMetrics ==
    \/ \E prof \in NewProfessionals : AddProfessional(prof, MaxProfs)
    \/ \E entry \in DurationEntries : AddExperience(entry, MaxJobs)
    \/ CalcMetrics
    \/ CalcTenure

SpecMetrics == InitBatch /\ [][NextMetrics]_vars

NextCareer ==
    \/ AddProfessional([experience |-> <<>>], MaxCareerProfs)
    \/ \E entry \in CareerEntries : AddExperience(entry, MaxCareerJobs)
    \/ CalcMetrics
    \/ CalcProgression
    \/ CalcStability
    \/ \E batch_size \in 1..MaxCareerProfs : Report(batch_size)

SpecCareer == InitBatch /\ [][NextCareer]_vars

-----------------------------------------------------------------------------
(* _aggregate_batch_results called on batch results of any shape *)

\* most batch results in one merge
MaxBatches == 3

\* a batch result as the service can reply it (all validated keys present)
Reply(total, with, insights, batch_number) ==
    [analysis_summary |->
        [total_professionals_analyzed |-> total,
         professionals_with_experience_data |-> with,
         average_years_experience |-> 0],
     experience_distribution |-> ZeroDistribution,
     career_insights |-> insights,
     batch_info |-> [batch_number |-> batch_number, total_batches |-> 2,
                     professionals_in_batch |-> total]]

\* tenure 2.75, rates 0.5 and 0.75, 2 professionals
Batch_A ==
    Reply(2, 1, [average_job_tenure |-> 275, career_progression_rate |-> 500,
                 industry_stability_score |-> 750], 1)
\* every value zero, 3 professionals
Batch_Zero == Reply(3, 0, ZeroInsights, 2)
\* tenure 2.5, rates 0.333 and 0.25, 1 professional
Batch_B ==
    Reply(1, 1, [average_job_tenure |-> 250, career_progression_rate |-> 333,
                 industry_stability_score |-> 250], 2)
\* the two rates, the with-experience count and batch_info are missing
Batch_NoKeys ==
    [analysis_summary |-> [total_professionals_analyzed |-> 4],
     career_insights |-> [average_job_tenure |-> 300]]
\* neither analysis_summary nor career_insights
Batch_Bare == [detailed_analysis |-> "text"]
\* "career_insights": null in a reply that has every validated key
Batch_NullInsights ==
    [analysis_summary |->
        [total_professionals_analyzed |-> 2,
         professionals_with_experience_data |-> 2,
         average_years_experience |-> 0],
     experience_distribution |-> ZeroDistribution,
     career_insights |-> PyNone]

BatchResultPool ==
    {Batch_A, Batch_Zero, Batch_B, Batch_NoKeys, Batch_Bare, Batch_NullInsights}

InitAggregate ==
    /\ pc = "collect"
    /\ all_results = <<>>
    /\ batches_done = 0
    /\ attempt = 0
    /\ log = <<>>
    /\ professionals = <<>>
    /\ ret = NoRet
    /\ duration = EmptyStr
    /\ parsed = [raised |-> FALSE, value |-> 0]
    /\ edit = NoEdit
    /\ run_status = "none"

\* one more batch result is at hand
AddBatchResult(batch_result) ==
    /\ pc = "collect"
    /\ Len(all_results) < MaxBatches
    /\ all_results' = Append(all_results, batch_result)
    /\ UNCHANGED <<run_status, pc, ret, professionals, duration, parsed, edit,
                   batches_done, attempt, log>>

\* the merge of the batch results at hand; the store is taken to hold one
\* professional per batch result (the number only enters analysis_scope)
Aggregate ==
    /\ pc = "collect"
    /\ \E report \in _aggregate_batch_results(all_results, Len(all_results)) :
          /\ ret' = [op |-> "merge",
                     raised |-> AggregateBody(all_results, Len(all_results)).raised,
                     value |-> report]
          /\ pc' = "merged"
    /\ UNCHANGED <<run_status, all_results, professionals, duration, parsed, edit,
                   batches_done, attempt, log>>

NextAggregate ==
    \/ \E batch_result \in BatchResultPool : AddBatchResult(batch_result)
    \/ Aggregate

SpecAggregate == InitAggregate /\ [][NextAggregate]_vars

-----------------------------------------------------------------------------
(* analyze_professional_database: the store is read once, cut in batches,  *)
(* each batch is sent to the service at most max_retries times, and the    *)
(* batch results that are not None are merged                              *)

\* line 22
max_retries == 3

\* the store holds at most MaxStore records; batch_size (75 at line 103) is
\* scaled to the store so that a full store makes two batches, the last of
\* which is not full when MaxStore is odd
MaxStore == 3
BatchSize == (MaxStore + 1) \div 2

Prof_WithJob ==
    [unique_id |-> "1", experience |-> <<[duration |-> PyStr(Str_3y9m)]>>]
\* an experience list holding a null entry
Prof_NullEntry == [unique_id |-> "4", experience |-> <<PyNone>>]
\* an entry holding a value json.dumps has no encoding for
Prof_Datetime ==
    [unique_id |-> "5",
     experience |-> <<[duration |-> PyStr(Str_7y6m),
                       starts_at |-> [type |-> "datetime"]]>>]

Stores ==
    UNION {[1..n -> {Prof_WithJob, NoExperienceKey, Prof_NullEntry, Prof_Datetime}] :
             n \in 0..MaxStore}

\* json.dumps raises TypeError on a value that is neither a JSON scalar, a
\* list nor a dict
JsonDumpsRaises(profs) ==
    \E i \in 1..Len(profs) :
        \E j \in 1..Len(ExperienceOf(profs[i])) :
            LET exp == ExperienceOf(profs[i])[j]
            IN  /\ IsDict(exp)
                /\ \E k \in DOMAIN exp : exp[k].type = "datetime"

\* lines 168-219: the prompt, as the batch numbers, the list that is dumped
\* into it and the keys that the dumped text holds: those of
\* professional_data (lines 184-196) and those of the experience entries
_prepare_analysis_prompt(profs, batch_num, total_batches) ==
    [raised |-> JsonDumpsRaises(profs),
     batch_number |-> batch_num,
     total_batches |-> total_batches,
     dataset |-> [i \in 1..Len(profs) |->
                     [id |-> Get(profs[i], "unique_id", "prof"),
                      experience |-> ExperienceOf(profs[i])]],
     keys |->
        {"id", "name", "headline", "company", "job_title", "city", "experience",
         "connections_count", "follower_count", "verified", "premium"}
        \cup UNION {UNION {IF IsDict(ExperienceOf(profs[i])[j])
                           THEN DOMAIN ExperienceOf(profs[i])[j] ELSE {} :
                             j \in 1..Len(ExperienceOf(profs[i]))} :
                      i \in 1..Len(profs)}]

\* lines 292-339. Line 298, re.search(r'"all_professionals":\s*(\[.*?\])',
\* prompt), finds a dumped key of that name followed by a list; data_summary,
\* which has that key, is not what line 213 dumps. The list after the key,
\* where there is one, is the value of that key in the entry that holds it
_handle_large_dataset_fallback(prompt) ==
    IF "all_professionals" \in prompt.keys
    THEN LET holders == {e \in UNION {{prompt.dataset[i].experience[j] :
                                          j \in 1..Len(prompt.dataset[i].experience)} :
                                      i \in 1..Len(prompt.dataset)} :
                            IsDict(e) /\ "all_professionals" \in DOMAIN e}
         IN  ManualFallbackResult((CHOOSE e \in holders : TRUE).all_professionals)
    ELSE _create_empty_analysis

\* lines 358-381
_parse_text_analysis(content) ==
    [analysis_summary |-> ZeroSummary,
     experience_distribution |-> ZeroDistribution,
     career_insights |-> ZeroInsights,
     detailed_analysis |-> content,
     parsing_status |-> "text_only"]

\* lines 341-356: "raised" when `field not in summary` meets a summary that
\* is None
_validate_analysis(analysis) ==
    IF ~({"analysis_summary", "experience_distribution", "career_insights"}
           \subseteq DOMAIN analysis)
    THEN [raised |-> FALSE, value |-> FALSE]
    ELSE IF ~IsDict(analysis.analysis_summary)
    THEN [raised |-> TRUE, value |-> FALSE]
    ELSE [raised |-> FALSE,
          value |-> {"total_professionals_analyzed", "average_years_experience"}
                       \subseteq DOMAIN analysis.analysis_summary]

\* messages of the exceptions that reach line 272
Msg_504 ==
    <<"5","0","4"," ","D","e","a","d","l","i","n","e"," ","E","x","c",
      "e","e","d","e","d">>
Msg_Timeout ==
    <<"R","e","q","u","e","s","t"," ","T","i","m","e","o","u","t">>
Msg_500 ==
    <<"5","0","0"," ","I","n","t","e","r","n","a","l"," ","e","r","r",
      "o","r">>
Msg_JSONDecodeError ==
    <<"E","x","p","e","c","t","i","n","g"," ","v","a","l","u","e">>
Msg_TypeError ==
    <<"a","r","g","u","m","e","n","t"," ","o","f"," ","t","y","p","e",
      " ","'","N","o","n","e","T","y","p","e","'"," ","i","s"," ","n",
      "o","t"," ","i","t","e","r","a","b","l","e">>

\* mutant: every error is taken for a timeout
AnyMessage(error_msg) == TRUE

\* line 277
IsTimeoutMessage(error_msg) ==
    \/ Contains(<<"5","0","4">>, error_msg)
    \/ Contains(<<"t","i","m","e","o","u","t">>, Lower(error_msg))
    \/ Contains(<<"d","e","a","d","l","i","n","e">>, Lower(error_msg))

Replies ==
    { [text |-> "valid", found |-> "object", json |->
          [analysis_summary |->
              [total_professionals_analyzed |-> 1,
               professionals_with_experience_data |-> 1,
               average_years_experience |-> 550,
               median_years_experience |-> 500,
               experience_range |-> [minimum |-> 200, maximum |-> 1000]],
           experience_distribution |->
              [entry_level_0_2_years |-> 0, mid_level_3_7_years |-> 1,
               senior_level_8_15_years |-> 0, executive_level_15_plus_years |-> 0],
           career_insights |->
              [average_job_tenure |-> 275, career_progression_rate |-> 800,
               industry_stability_score |-> 700],
           detailed_analysis |-> "analysis"]],
      [text |-> "null insights", found |-> "object", json |->
          [analysis_summary |->
              [total_professionals_analyzed |-> 1, average_years_experience |-> 550],
           experience_distribution |-> ZeroDistribution,
           career_insights |-> PyNone]],
      [text |-> "missing keys", found |-> "object", json |->
          [analysis_summary |-> [total_professionals_analyzed |-> 100]]],
      [text |-> "no average", found |-> "object", json |->
          [analysis_summary |-> [total_professionals_analyzed |-> 100],
           experience_distribution |-> ZeroDistribution,
           career_insights |->
              [average_job_tenure |-> 900, career_progression_rate |-> 900,
               industry_stability_score |-> 900]]],
      [text |-> "null summary", found |-> "object", json |->
          [analysis_summary |-> PyNone,
           experience_distribution |-> ZeroDistribution,
           career_insights |-> ZeroInsights]],
      [text |-> "cut short", found |-> "malformed", json |-> EmptyDict],
      [text |-> "prose", found |-> "none", json |-> EmptyDict] }

\* what one call of generate_content does: it answers or it raises
ServiceOutcomes ==
    {[kind |-> "reply", reply |-> r, message |-> <<>>] : r \in Replies}
    \cup {[kind |-> "error", reply |-> EmptyDict, message |-> error_msg] :
            error_msg \in {Msg_504, Msg_Timeout, Msg_500}}

\* lines 252-270: "raised" with the message of the exception, or the value
\* returned
HandleReply(reply) ==
    IF reply.found = "none"
    THEN [raised |-> FALSE, message |-> <<>>,
          value |-> _parse_text_analysis(reply.text)]
    ELSE IF reply.found = "malformed"
    THEN [raised |-> TRUE, message |-> Msg_JSONDecodeError, value |-> PyNone]
    ELSE IF _validate_analysis(reply.json).raised
    THEN [raised |-> TRUE, message |-> Msg_TypeError, value |-> PyNone]
    ELSE IF _validate_analysis(reply.json).value
    THEN [raised |-> FALSE, message |-> <<>>, value |-> reply.json]
    ELSE [raised |-> FALSE, message |-> <<>>,
          value |-> _parse_text_analysis(reply.text)]

\* mutant: the wait grows by two seconds per attempt
LinearBackoff(k) == 2 * k

\* line 280: 2 ** attempt
Backoff(k) == 2 ^ k

\* lines 272-288: the except branch of attempt k
OnException(prompt, k, error_msg) ==
    IF IsTimeoutMessage(error_msg)
    THEN IF k < max_retries - 1
         THEN [next |-> "retry", seconds |-> Backoff(k), value |-> PyNone]
         ELSE [next |-> "return", seconds |-> 0,
               value |-> _handle_large_dataset_fallback(prompt)]
    ELSE [next |-> "return", seconds |-> 0, value |-> PyNone]

\* lines 225-288: attempt k of _get_gemini_analysis
AttemptResult(prompt, k, outcome) ==
    IF outcome.kind = "error"
    THEN OnException(prompt, k, outcome.message)
    ELSE IF HandleReply(outcome.reply).raised
    THEN OnException(prompt, k, HandleReply(outcome.reply).message)
    ELSE [next |-> "return", seconds |-> 0,
          value |-> HandleReply(outcome.reply).value]

InitAnalyze ==
    /\ pc = "start"
    /\ professionals \in Stores
    /\ ret = NoRet
    /\ NoRun
    /\ run_status = "none"
    /\ duration = EmptyStr
    /\ parsed = [raised |-> FALSE, value |-> 0]
    /\ edit = NoEdit

TotalBatches == Len(BatchesAt(professionals, BatchSize))
CurrentBatch == BatchesAt(professionals, BatchSize)[batches_done + 1]
CurrentPrompt ==
    _prepare_analysis_prompt(CurrentBatch, batches_done + 1, TotalBatches)

\* mutant: a run in which every batch failed has no report
MergeOrNone(results) ==
    IF results /= <<>>
    THEN _aggregate_batch_results(results, Len(professionals))
    ELSE {PyNone}

\* mutant: only the first of the kept batch results is merged
MergeFirstOnly(results) ==
    IF results /= <<>>
    THEN _aggregate_batch_results(SubSeq(results, 1, 1), Len(professionals))
    ELSE {_create_empty_analysis}

\* lines 131-137: the report once the loop over the batches has ended
FinalReports(results) ==
    IF results /= <<>>
    THEN _aggregate_batch_results(results, Len(professionals))
    ELSE {_create_empty_analysis}

\* mutant: the run waits after the last batch as well
WaitsAfterEveryBatch(batch_num, total_batches) == TRUE

\* line 126, with batch_num counted from 0: the run waits a minute after
\* every batch but the last
WaitsAfterBatch(batch_num, total_batches) == batch_num < total_batches - 1

\* lines 114-137: _analyze_batch has returned batch_result for the current
\* batch (lines 153-163 add batch_info to one that is not None); it is kept
\* if it is not None, then the run waits a minute before the next batch or,
\* after the last one, merges what it kept; the log records the wait and
\* the call of _aggregate_batch_results
BatchReturns(batch_result, calls) ==
    \E results \in
         {IF batch_result /= PyNone
          THEN Append(all_results,
                      WithBatchInfo(batch_result, batches_done + 1,
                                    TotalBatches, Len(CurrentBatch)))
          ELSE all_results} :
       /\ all_results' = results
       /\ batches_done' = batches_done + 1
       /\ attempt' = 0
       /\ log' = log \o calls
                     \o (IF WaitsAfterBatch(batches_done, TotalBatches)
                         THEN <<[op |-> "sleep", seconds |-> 60]>> ELSE <<>>)
                     \o (IF batches_done + 1 = TotalBatches /\ results /= <<>>
                         THEN <<[op |-> "merge", results |-> Len(results)]>>
                         ELSE <<>>)
       /\ IF batches_done + 1 < TotalBatches
          THEN /\ pc' = "batch"
               /\ ret' = ret
          ELSE /\ pc' = "done"
               /\ \E report \in FinalReports(results) :
                     ret' = [op |-> "analyze", value |-> report]
       /\ UNCHANGED <<run_status, professionals, duration, parsed, edit>>

\* lines 85-101: the store is read; database.get_all_professionals gives []
\* when the read fails (database.py lines 108-114)
StartAnalysis ==
    /\ pc = "start"
    /\ \E all_professionals \in {professionals, <<>>} :
          IF all_professionals = <<>>
          THEN /\ pc' = "done"
               /\ ret' = [op |-> "analyze", value |-> _create_empty_analysis]
          ELSE /\ pc' = "batch"
               /\ ret' = ret
    /\ UNCHANGED <<run_status, professionals, duration, parsed, edit>>
    /\ UNCHANGED run_vars

\* lines 146-148: the prompt of the next batch is written; when json.dumps
\* raises, line 164 makes the result of the batch None
BeginBatch ==
    /\ pc = "batch"
    /\ IF CurrentPrompt.raised
       THEN BatchReturns(PyNone, <<>>)
       ELSE /\ pc' = "call"
            /\ attempt' = 0
            /\ UNCHANGED <<run_status, professionals, ret, duration, parsed, edit,
                           all_results, batches_done, log>>

\* one pass of the loop at line 225: the service is called and answers
\* with outcome
Attempt(outcome) ==
    /\ pc = "call"
    /\ attempt < max_retries
    /\ \E result \in {AttemptResult(CurrentPrompt, attempt, outcome)},
          call \in {[op |-> "call", batch |-> batches_done + 1,
                     attempt |-> attempt]} :
          IF result.next = "return"
          THEN BatchReturns(result.value, <<call>>)
          ELSE IF attempt + 1 < max_retries
          THEN /\ log' = log \o <<call, [op |-> "sleep",
                                         seconds |-> result.seconds]>>
               /\ attempt' = attempt + 1
               /\ UNCHANGED <<run_status, pc, professionals, ret, duration, parsed, edit,
                              all_results, batches_done>>
          ELSE \* line 290: the loop has run out
               BatchReturns(PyNone, <<call, [op |-> "sleep",
                                             seconds |-> result.seconds]>>)

\* mutant of RecordsAfterCall (the call writes the default it reads): each
\* record that has no experience key, with the key and an empty list
WithEmptyExperience(profs) ==
    [i \in 1..Len(profs) |->
        IF IsDict(profs[i]) /\ "experience" \notin DOMAIN profs[i]
        THEN [k \in DOMAIN profs[i] \cup {"experience"} |->
                 IF k = "experience" THEN <<>> ELSE profs[i][k]]
        ELSE profs[i]]

\* the list a caller passed, after calculate_experience_metrics returned:
\* lines 417-425 and the helpers of lines 462-608 read the records with .get
\* and write to none; the only sort (line 438) is of a list made at line 415
RecordsAfterCall(profs) == profs

\* calculate_experience_metrics called with what the store holds
MetricsOfStore ==
    /\ pc = "start"
    /\ pc' = "metrics"
    /\ ret' = [op |-> "metrics",
               input |-> professionals,
               raised |-> MetricsRaises(professionals),
               value |-> calculate_experience_metrics(professionals)]
    /\ professionals' = RecordsAfterCall(professionals)
    /\ UNCHANGED <<run_status, duration, parsed, edit>>
    /\ UNCHANGED run_vars

\* a second call with the list the first call was given
MetricsAgain ==
    /\ pc = "metrics"
    /\ pc' = "metrics_again"
    /\ ret' = [op |-> "metrics_again",
               input |-> ret.input,
               first |-> ret.value,
               raised |-> MetricsRaises(professionals),
               value |-> calculate_experience_metrics(professionals)]
    /\ professionals' = RecordsAfterCall(professionals)
    /\ UNCHANGED <<run_status, duration, parsed, edit>>
    /\ UNCHANGED run_vars

NextAnalyze ==
    \/ StartAnalysis
    \/ BeginBatch
    \/ \E outcome \in ServiceOutcomes : Attempt(outcome)
    \/ MetricsOfStore
    \/ MetricsAgain

SpecAnalyze == InitAnalyze /\ [][NextAnalyze]_vars

-----------------------------------------------------------------------------
(* ApifyController._run_actor_and_get_results: start the run, poll its
   status, fetch the dataset *)

\* polls that may find the run still under way
MaxPolls == 3
\* items the dataset may hold
MaxItems == 2

\* the statuses at which a run stays
Terminal == {"SUCCEEDED", "FAILED", "ABORTED", "TIMED-OUT"}

\* what the POST of line 97 may give: a 201 reply whose top level has both
\* ids, lacks defaultDatasetId, or has the ids under 'data' only; another
\* status code; an exception
StartReplies ==
    { [kind |-> "reply", code |-> 201, id |-> TRUE, defaultDatasetId |-> TRUE],
      [kind |-> "reply", code |-> 201, id |-> TRUE, defaultDatasetId |-> FALSE],
      [kind |-> "reply", code |-> 201, id |-> FALSE, defaultDatasetId |-> FALSE],
      [kind |-> "reply", code |-> 400, id |-> FALSE, defaultDatasetId |-> FALSE],
      [kind |-> "exception", code |-> 0, id |-> FALSE, defaultDatasetId |-> FALSE] }

\* lines 46-63: the run is started; without a reply of code 201
\* (_start_actor_run gives None), a run id or a dataset id the operation
\* returns []; a run that the platform created is READY
StartRun(reply) ==
    /\ pc = "start"
    /\ log' = Append(log, [op |-> "start", reply |-> reply])
    /\ run_status' = IF reply.code = 201 THEN "READY" ELSE "none"
    /\ IF reply.code = 201 /\ reply.id /\ reply.defaultDatasetId
       THEN pc' = "wait" /\ ret' = ret
       ELSE pc' = "done" /\ ret' = [op |-> "apify", value |-> <<>>]
    /\ UNCHANGED <<duration, parsed, edit, professionals,
                   all_results, batches_done, attempt>>

\* the platform: a run that is READY starts to run or is aborted, a run
\* that is RUNNING ends in one of the terminal statuses
RunProceeds ==
    /\ \/ run_status = "READY" /\ run_status' \in {"RUNNING", "ABORTED"}
       \/ run_status = "RUNNING" /\ run_status' \in Terminal
    /\ UNCHANGED <<pc, duration, parsed, edit, professionals, ret,
                   all_results, batches_done, attempt, log>>

\* what the GET of line 129 may give when the run has status s
PollReplies(s) ==
    { [kind |-> "reply", code |-> 200, status |-> s],
      [kind |-> "reply", code |-> 500, status |-> "none"],
      [kind |-> "exception", code |-> 0, status |-> "none"] }

\* mutant: the wait reports success for every run that is over
WaitTrueWhenOver(reply) ==
    IF reply.kind = "exception" \/ reply.code /= 200 THEN "False"
    ELSE IF reply.status \in Terminal THEN "True"
    ELSE "again"

\* lines 127-152, one pass of `while True`: what the reply makes of the
\* wait ("again": sleep and poll again)
PassOfWait(reply) ==
    IF reply.kind = "exception" THEN "False"
    ELSE IF reply.code /= 200 THEN "False"
    ELSE IF reply.status = "SUCCEEDED" THEN "True"
    ELSE IF reply.status \in {"FAILED", "ABORTED", "TIMED-OUT"} THEN "False"
    ELSE "again"

PollsMade == Cardinality({i \in 1..Len(log) : log[i].op = "poll"})

\* one pass of the loop of _wait_for_run_completion, and lines 69-71 when
\* it returns.  The run is found under way at most MaxPolls times.
Poll(reply) ==
    /\ pc = "wait"
    /\ PollsMade < MaxPolls \/ run_status \in Terminal
    /\ log' = log \o <<[op |-> "poll", reply |-> reply]>>
                  \o (IF PassOfWait(reply) = "again"
                      THEN <<[op |-> "sleep", seconds |-> 10]>> ELSE <<>>)
    /\ IF PassOfWait(reply) = "True" THEN pc' = "fetch" /\ ret' = ret
       ELSE IF PassOfWait(reply) = "False"
       THEN pc' = "done" /\ ret' = [op |-> "apify", value |-> <<>>]
       ELSE pc' = "wait" /\ ret' = ret
    /\ UNCHANGED <<run_status, duration, parsed, edit, professionals,
                   all_results, batches_done, attempt>>

\* lines 74-84: the dataset is fetched; it gives items results (none when
\* the request fails, lines 190-197), of which _transform_results keeps
\* kept
FetchDataset(items, kept) ==
    /\ pc = "fetch"
    /\ kept <= items
    /\ log' = Append(log, [op |-> "dataset", items |-> items])
    /\ pc' = "done"
    /\ ret' = [op |-> "apify", value |-> [i \in 1..kept |-> "professional"]]
    /\ UNCHANGED <<run_status, duration, parsed, edit, professionals,
                   all_results, batches_done, attempt>>

InitApify ==
    /\ pc = "start"
    /\ duration = EmptyStr
    /\ parsed = [raised |-> FALSE, value |-> 0]
    /\ edit = NoEdit
    /\ professionals = <<>>
    /\ ret = NoRet
    /\ NoRun
    /\ run_status = "none"

PollStep == \E reply \in PollReplies(run_status) : Poll(reply)

NextApify ==
    \/ \E reply \in StartReplies : StartRun(reply)
    \/ RunProceeds
    \/ PollStep
    \/ \E items \in 0..MaxItems, kept \in 0..MaxItems : FetchDataset(items, kept)

SpecApify == InitApify /\ [][NextApify]_vars

\* the loop of lines 126-152 goes on by itself: a request that is made
\* returns or raises, and after the sleep of line 144 the next is made
FairSpecApify == SpecApify /\ WF_vars(PollStep)

-----------------------------------------------------------------------------
(* Claims about the parser *)

ParseReturned == pc \in {"parsed", "reparsed"}

\* C1: for every duration input, _parse_duration_string returns a value
\* without raising, and the value is >= 0
C1_ParseNeverRaisesNonNegative ==
    ParseReturned => (parsed.raised = FALSE /\ parsed.value >= 0)

\* a digit-free string and a non-string input have both been parsed to 0
C1_Witness ==
    /\ pc = "parsed"
    /\ duration \in {PyStr(Str_invalid), PyNone}
    /\ parsed = [raised |-> FALSE, value |-> 0]

\* positions where the unit word occurs in s
WordPositions(s, unit) ==
    {k \in 1..Len(s) : k + Len(unit) - 1 <= Len(s)
                       /\ SubSeq(s, k, k + Len(unit) - 1) = unit}

\* the last position before k that holds no white space (0 if none)
LastNonSpaceBefore(s, k) ==
    LET ns == {e \in 1..(k - 1) : ~IsSpace(s[e])}
    IN  IF ns = {} THEN 0 ELSE CHOOSE e \in ns : \A f \in ns : f <= e

\* the unit word at k has an integer directly before it
HasIntBefore(s, k) ==
    LET e == LastNonSpaceBefore(s, k) IN e > 0 /\ IsDigit(s[e])

\* that integer: the whole run of digits ending before the word at k
IntBefore(s, k) ==
    LET e == LastNonSpaceBefore(s, k)
        bs == {b \in 1..e : \A j \in b..e : IsDigit(s[j])}
        b == CHOOSE x \in bs : \A y \in bs : x <= y
    IN  IntOf(SubSeq(s, b, e))

\* the first integer directly preceding the unit word, 0 when absent
FirstIntBeforeWord(s, unit) ==
    LET ks == {k \in WordPositions(s, unit) : HasIntBefore(s, k)}
    IN  IF ks = {} THEN 0
        ELSE IntBefore(s, CHOOSE k \in ks : \A l \in ks : k <= l)

\* v hundredths is y + m/12 rounded to 2 decimals: v/100 is the multiple of
\* 0.01 nearest to y + m/12 (25m/3 is never half way between two integers)
IsYearsMonthsRounded(v, y, m) ==
    LET d == 12 * v - (1200 * y + 100 * m)
    IN  -6 < d /\ d < 6

\* C2: the parser returns y + m/12 rounded to 2 decimals, y and m the first
\* integers directly preceding "year" and "month" in the lower-cased, trimmed
\* text (0 when absent); "2 years 3 months" gives 2.25, "1 year" 1.0,
\* "6 months" 0.5, "" and "invalid" exactly 0.0
C2_ParseYearsPlusMonths ==
    (ParseReturned /\ IsStr(duration)) =>
        LET text == Strip(Lower(duration.s))
        IN  /\ IsYearsMonthsRounded(parsed.value,
                                    FirstIntBeforeWord(text, YearWord),
                                    FirstIntBeforeWord(text, MonthWord))
            /\ duration.s = Str_2y3m => parsed.value = 225
            /\ duration.s = Str_1y => parsed.value = 100
            /\ duration.s = Str_6m => parsed.value = 50
            /\ duration.s \in {Str_empty, Str_invalid} => parsed.value = 0

\* "2 years 3 months" has been parsed to 2.25
C2_Witness ==
    pc = "parsed" /\ duration = PyStr(Str_2y3m) /\ parsed.value = 225

\* C3 as stated: an extraneous word added anywhere leaves the value unchanged
C3_InsertAnywhereKeepsValue ==
    pc = "reparsed" => parsed.value = edit.value

\* the span <<first, last>> of the match re.search finds for the unit in the
\* lower-cased text, <<0, 0>> without a match (positions of the raw string:
\* a match never starts or ends with white space, so strip() only shifts it)
FoundSpan(s, unit) ==
    LET text == Lower(s)
        i == SearchStart(text, unit)
    IN  IF i = 0 THEN <<0, 0>>
        ELSE LET ends == {i + dw[1] + dw[2] + Len(unit) - 1 :
                              dw \in MatchesAt(text, i, unit)}
             IN  <<i, CHOOSE e \in ends : \A f \in ends : f <= e>>

\* inserting after the first p characters splits the text a pattern matched
SplitsFoundMatch(s, p) ==
    \E unit \in {YearWord, MonthWord} :
        LET span == FoundSpan(s, unit)
        IN  span[1] > 0 /\ span[1] <= p /\ p < span[2]

\* C3 (amended): an extraneous word added anywhere but inside the text the
\* year or month pattern matched (the number, the unit word, the space
\* between them) leaves the value unchanged
C3_InsertOutsideMatchKeepsValue ==
    (pc = "reparsed" /\ ~SplitsFoundMatch(edit.before.s, edit.at)) =>
        parsed.value = edit.value

\* "2 years 3 months" became "2 years and 3 months" and still parses to 2.25
C3_Witness ==
    /\ pc = "reparsed"
    /\ edit.before = PyStr(Str_2y3m)
    /\ duration = PyStr(Str_2y_and_3m)
    /\ ~SplitsFoundMatch(edit.before.s, edit.at)
    /\ edit.value = 225
    /\ parsed.value = 225

-----------------------------------------------------------------------------
(* Claims about the metrics of one batch *)

\* the sum of the parsed durations of all experience entries of a record
TotalYears(prof) ==
    LET experience == ExperienceOf(prof)
    IN  SumSeq([j \in 1..Len(experience) |->
                   _parse_duration_string(Get(experience[j], "duration", EmptyStr))])

\* the total years of every record of the batch, in batch order
Totals(profs) == [i \in 1..Len(profs) |-> TotalYears(profs[i])]

\* the records whose total years is > 0
WithYears(totals) == {i \in DOMAIN totals : totals[i] > 0}

\* C4: professionals_with_experience is the number of records whose total
\* years (the sum of the parsed durations of all entries) is > 0,
\* total_professionals is the batch length; the largest and smallest such
\* sums are what the metrics report as max_years and min_years
C4_CountsRecordsWithYears ==
    pc = "metrics" =>
        LET totals == Totals(professionals)
            I == WithYears(totals)
        IN  /\ ret.value.professionals_with_experience = Cardinality(I)
            /\ ret.value.total_professionals = Len(professionals)
            /\ I /= {} =>
                  /\ \E i \in I : ret.value.max_years = totals[i]
                  /\ \E i \in I : ret.value.min_years = totals[i]
                  /\ \A i \in I : /\ ret.value.min_years <= totals[i]
                                  /\ totals[i] <= ret.value.max_years

\* a record without experience, one with only an unparseable duration and
\* one with two parsed entries: 3 in total, 1 with experience, 11.25 years
C4_Witness ==
    /\ pc = "metrics"
    /\ Len(professionals) = 3
    /\ \E i \in 1..3 : ExperienceOf(professionals[i]) = <<>>
    /\ \E i \in 1..3 :
          ExperienceOf(professionals[i]) = <<[duration |-> PyStr(Str_invalid)]>>
    /\ ret.value.total_professionals = 3
    /\ ret.value.professionals_with_experience = 1
    /\ ret.value.max_years = 1125

\* C5 as stated: average_years is exactly the sum of the totals divided by
\* the number of records with total years > 0
C5_AverageIsExactQuotient ==
    pc = "metrics" =>
        LET totals == Totals(professionals)
        IN  WithYears(totals) /= {} =>
                ret.value.average_years * Cardinality(WithYears(totals))
                    = SumSeq(totals)

\* the totals of the records with years are 3.75 and 7.5, one record has none
IsExampleBatch(totals) ==
    /\ Len(totals) = 3
    /\ Cardinality(WithYears(totals)) = 2
    /\ {totals[i] : i \in WithYears(totals)} = {375, 750}

\* C5 (amended): average_years is that quotient rounded to 2 decimals (the
\* nearest hundredth, the even one when two are equally near); for totals
\* 3.75 and 7.5 plus a record without experience: total 3, with experience
\* 2, mean 5.62, median 7.5, min 3.75, max 7.5
C5_AverageIsRoundedQuotient ==
    pc = "metrics" =>
        LET totals == Totals(professionals)
            n == Cardinality(WithYears(totals))
            off == 2 * (ret.value.average_years * n - SumSeq(totals))
        IN  n > 0 =>
              /\ -n <= off /\ off <= n
              /\ (off = n \/ off = -n) => ret.value.average_years % 2 = 0
              /\ IsExampleBatch(totals) =>
                    /\ ret.value.total_professionals = 3
                    /\ ret.value.professionals_with_experience = 2
                    /\ ret.value.average_years = 562
                    /\ ret.value.median_years = 750
                    /\ ret.value.min_years = 375
                    /\ ret.value.max_years = 750

\* the metrics of the example batch have been computed
C5_Witness ==
    /\ pc = "metrics"
    /\ IsExampleBatch(Totals(professionals))
    /\ ret.value.average_years = 562

\* C6: with n >= 1 records of total years > 0, median_years is the element
\* at index floor(n/2) of the ascending totals: at most floor(n/2) totals
\* lie below it and more than floor(n/2) do not exceed it
C6_MedianIsUpperMiddle ==
    pc = "metrics" =>
        LET totals == Totals(professionals)
            I == WithYears(totals)
            n == Cardinality(I)
            m == ret.value.median_years
        IN  n > 0 =>
              /\ \E i \in I : totals[i] = m
              /\ Cardinality({i \in I : totals[i] < m}) <= n \div 2
              /\ Cardinality({i \in I : totals[i] <= m}) > n \div 2

\* two records with totals 7.5 and 3.75, in that order: the median is 7.5,
\* the upper of the two, not their mean
C6_Witness ==
    /\ pc = "metrics"
    /\ Totals(professionals) = <<750, 375>>
    /\ ret.value.median_years = 750

\* all experience entries of the batch, as <<record, entry>> positions
AllEntries(profs) ==
    UNION {{<<i, j>> : j \in 1..Len(ExperienceOf(profs[i]))} : i \in 1..Len(profs)}

DurationAt(profs, ij) ==
    Get(ExperienceOf(profs[ij[1]])[ij[2]], "duration", EmptyStr)

\* the sum of the parsed durations of all entries of all records
SumAllTenures(profs) == SumSeq(Totals(profs))

\* C7 as stated: the denominator counts every entry with a non-empty
\* duration string
C7_TenureOverNonEmptyDurations ==
    pc = "tenure" =>
        LET jobs == Cardinality({ij \in AllEntries(professionals) :
                                    Truthy(DurationAt(professionals, ij))})
        IN  FracEq(ret.value,
                   IF jobs = 0 THEN Zero
                   ELSE Frac(SumAllTenures(professionals), jobs))

\* C7 (amended): the denominator counts the entries whose duration parses to
\* more than 0; 0.0 when there is none
C7_TenureOverParsedDurations ==
    pc = "tenure" =>
        LET jobs == Cardinality({ij \in AllEntries(professionals) :
                       _parse_duration_string(DurationAt(professionals, ij)) > 0})
        IN  FracEq(ret.value,
                   IF jobs = 0 THEN Zero
                   ELSE Frac(SumAllTenures(professionals), jobs))

\* "invalid" and "3 years 9 months" in one batch: the tenure is 3.75 / 1
C7_Witness ==
    /\ pc = "tenure"
    /\ \E ij \in AllEntries(professionals) :
          DurationAt(professionals, ij) = PyStr(Str_invalid)
    /\ \E ij \in AllEntries(professionals) :
          DurationAt(professionals, ij) = PyStr(Str_3y9m)
    /\ TotalJobs(professionals) = 2
    /\ ret.value = Frac(375, 1)

-----------------------------------------------------------------------------
(* Claims about the career insights *)

\* the four tests of the stability score for one record with entries
StabilityPoints(prof) ==
    LET experience == ExperienceOf(prof)
        names == {Get(experience[j], "companyName", EmptyStr) :
                     j \in 1..Len(experience)} \ {EmptyStr}
        repeats == \E j, k \in 1..Len(experience) :
                      /\ j < k
                      /\ Truthy(Get(experience[j], "companyName", EmptyStr))
                      /\ Get(experience[j], "companyName", EmptyStr)
                            = Get(experience[k], "companyName", EmptyStr)
    IN  (IF TotalYears(prof) >= 200 * Len(experience) THEN 1 ELSE 0)
        + (IF repeats THEN 1 ELSE 0)
        + (IF Cardinality(names) <= 2 THEN 1 ELSE 0)
        + (IF _parse_duration_string(Get(experience[1], "duration", EmptyStr)) >= 150
           THEN 1 ELSE 0)

\* C8: the stability score is the sum of the points of the records with at
\* least one entry, divided by 4 times their number; 0 without such a record
C8_StabilityIsPointsOverFour ==
    pc = "stability" =>
        LET I == {i \in 1..Len(professionals) :
                     Len(ExperienceOf(professionals[i])) >= 1}
            points == SumSeq([i \in 1..Len(professionals) |->
                                IF i \in I THEN StabilityPoints(professionals[i])
                                ELSE 0])
        IN  FracEq(ret.value,
                   IF I = {} THEN Zero ELSE Frac(points, 4 * Cardinality(I)))

\* a progression pattern is found in the titles of a record
PatternFound(prof) == PatternsFired(JobTitles(ExperienceOf(prof))) >= 1

\* C9: the progression rate is the number of records with >= 2 entries in
\* which a pattern is found, divided by the number of records with >= 2
\* entries; 0 without such a record; a record matching several patterns
\* counts once
C9_ProgressionRateCountsRecords ==
    pc = "progression" =>
        LET I == {i \in 1..Len(professionals) :
                     Len(ExperienceOf(professionals[i])) >= 2}
            found == {i \in I : PatternFound(professionals[i])}
        IN  FracEq(ret.value,
                   IF I = {} THEN Zero
                   ELSE Frac(Cardinality(found), Cardinality(I)))

\* two records with two entries each; junior -> senior fires two patterns
\* in the first, none fires in the second: the rate is 1/2
C9_Witness ==
    /\ pc = "progression"
    /\ Len(professionals) = 2
    /\ ExperienceOf(professionals[1]) = <<Junior, Senior>>
    /\ PatternsFired(JobTitles(ExperienceOf(professionals[1]))) = 2
    /\ ExperienceOf(professionals[2]) = <<Senior, Junior>>
    /\ ret.value = Frac(1, 2)

InUnitInterval(thousandths) == 0 <= thousandths /\ thousandths <= 1000

\* C10: the progression rate and the stability score of the metrics of a
\* batch, and those of the report merged from the metrics of its batches,
\* lie in [0, 1]
C10_RatesInUnitInterval ==
    /\ pc = "metrics" =>
          /\ InUnitInterval(ret.value.career_progression_rate)
          /\ InUnitInterval(ret.value.industry_stability_score)
    /\ pc = "report" =>
          /\ InUnitInterval(ret.value.report.career_insights.career_progression_rate)
          /\ InUnitInterval(ret.value.report.career_insights.industry_stability_score)

\* two batches of one record each, both with a progression: the merged
\* report has rate 1.0
C10_Witness ==
    /\ pc = "report"
    /\ ret.value.batch_size = 1
    /\ Len(professionals) = 2
    /\ \A i \in 1..2 : ExperienceOf(professionals[i]) = <<Junior, Senior>>
    /\ ret.value.report.analysis_summary.total_batches_processed = 2
    /\ ret.value.report.career_insights.career_progression_rate = 1000

-----------------------------------------------------------------------------
(* Claims about the merge of batch results *)

InsightKeys ==
    {"average_job_tenure", "career_progression_rate", "industry_stability_score"}

\* the batch results that have a value > 0 for the insight
BatchesWithValue(batch_results, key) ==
    {b \in 1..Len(batch_results) :
        /\ "career_insights" \in DOMAIN batch_results[b]
        /\ key \in DOMAIN batch_results[b].career_insights
        /\ batch_results[b].career_insights[key] > 0}

ValueSum(batch_results, key) ==
    LET I == BatchesWithValue(batch_results, key)
    IN  SumSeq([b \in 1..Len(batch_results) |->
                  IF b \in I THEN batch_results[b].career_insights[key] ELSE 0])

StatedCount(batch_result, key) ==
    IF /\ "analysis_summary" \in DOMAIN batch_result
       /\ key \in DOMAIN batch_result.analysis_summary
    THEN batch_result.analysis_summary[key]
    ELSE 0

C13_EmptyMergeIsZero ==
    (pc = "merged" /\ all_results = <<>>) =>
        /\ IsDict(ret.value)
        /\ ~ret.raised
        /\ ret.value.analysis_summary.total_professionals_analyzed = 0
        /\ ret.value.analysis_summary.professionals_with_experience_data = 0
        /\ ret.value.analysis_summary.total_batches_processed = 0
        /\ ret.value.batch_details = <<>>
        /\ \A key \in InsightKeys : ret.value.career_insights[key] = 0

\* the merge of no batch results has returned the report of lines 673-699
C13_Witness ==
    /\ pc = "merged"
    /\ all_results = <<>>
    /\ ret.value.calculation_method = "batched_ai_analysis"
    /\ ret.value.career_insights = ZeroInsights

-----------------------------------------------------------------------------
(* Claims about failures and the run of analyze_professional_database *)

\* the aggregates of a BatchMetrics, as calculate_experience_metrics names
\* them
MetricsAggregates ==
    {"professionals_with_experience", "average_years", "median_years",
     "min_years", "max_years", "average_job_tenure",
     "career_progression_rate", "industry_stability_score"}

\* C14: for an empty batch, or one in which no record has total years > 0,
\* the metrics have total_professionals equal to the batch length and every
\* aggregate (with-experience count, mean, median, min, max, tenure,
\* progression rate, stability score) present and equal to zero
C14_ZeroBatchHasEveryAggregate ==
    (pc = "metrics" /\ WithYears(Totals(professionals)) = {}) =>
        /\ ret.value.total_professionals = Len(professionals)
        /\ \A key \in MetricsAggregates :
              key \in DOMAIN ret.value /\ ret.value[key] = 0


\* the parts every report and every batch result has
IsAnalysis(v) ==
    /\ IsDict(v)
    /\ {"analysis_summary", "experience_distribution", "career_insights"}
          \subseteq DOMAIN v

\* the merge of the kept batch results raised
MergeRaised ==
    /\ all_results /= <<>>
    /\ AggregateBody(all_results, Len(professionals)).raised

\* C15: calculate_experience_metrics, _aggregate_batch_results and
\* analyze_professional_database return a value whatever the records, the
\* store and the outcomes of the service calls are: the metrics are a dict
\* with average_years, which is the zero dict with the error when the body
\* raised; the report of a run is an analysis, and it is the empty analysis
\* when the store gave nothing, when no batch gave a result or when the merge
\* raised
C15_FailuresGiveZeroResults ==
    /\ pc = "metrics" =>
          /\ IsDict(ret.value) /\ "average_years" \in DOMAIN ret.value
          /\ ret.raised => ret.value.average_years = 0
    /\ pc = "done" =>
          /\ IsAnalysis(ret.value)
          /\ (all_results = <<>> \/ MergeRaised) =>
                ret.value = _create_empty_analysis

\* a run whose two batches were answered, the merge of which raised
C15_Witness ==
    /\ pc = "done"
    /\ Len(all_results) = 2
    /\ MergeRaised
    /\ ret.value = _create_empty_analysis


\* the batch result that the current batch has just added to all_results
KeptResult == all_results'[Len(all_results')]
BatchWasKept == Len(all_results') = Len(all_results) + 1

\* batch_result carries what calculate_experience_metrics gives for profs
CarriesLocalMetrics(batch_result, profs) ==
    \E local \in {calculate_experience_metrics(profs)} :
       /\ batch_result.analysis_summary.total_professionals_analyzed = Len(profs)
       /\ batch_result.analysis_summary.professionals_with_experience_data
             = Get(local, "professionals_with_experience", 0)
       /\ batch_result.analysis_summary.average_years_experience
             = Get(local, "average_years", 0)
       /\ batch_result.career_insights.average_job_tenure
             = Get(local, "average_job_tenure", 0)

\* C16: when the last of the max_retries attempts for a batch fails as the
\* ones before it did, the batch result that is kept for the merge carries
\* the metrics calculate_experience_metrics gives for the records of the
\* batch
C16_FailedBatchCarriesLocalMetrics ==
    [][\A outcome \in ServiceOutcomes :
          (/\ pc = "call"
           /\ attempt = max_retries - 1
           /\ outcome.kind = "error"
           /\ Attempt(outcome))
          => /\ BatchWasKept
             /\ CarriesLocalMetrics(KeptResult, CurrentBatch)]_vars

\* the places of the service calls of batch b in the log
CallsOf(b) == {i \in 1..Len(log) : log[i].op = "call" /\ log[i].batch = b}

\* the waits between attempts; the wait between batches is a minute
IsBackoff(e) == e.op = "sleep" /\ e.seconds /= 60

\* C17: for every batch the service is called at most 3 times, with attempt
\* numbers 0, 1, 2 in this order; attempt k + 1 comes right after a wait of
\* 2^k seconds that follows attempt k, a wait happens nowhere else, and the
\* loop is never at a fourth attempt
C17_AtMostThreeAttemptsWithBackoff ==
    /\ pc = "call" => attempt < 3
    /\ \A b \in 1..(batches_done + 1) : Cardinality(CallsOf(b)) <= 3
    /\ \A i \in 1..Len(log) :
          /\ log[i].op = "call" =>
                /\ log[i].attempt \in 0..2
                /\ log[i].attempt = 0 => \A j \in CallsOf(log[i].batch) : j >= i
                /\ log[i].attempt > 0 =>
                      /\ i > 2
                      /\ log[i - 1] = [op |-> "sleep",
                                       seconds |-> 2 ^ (log[i].attempt - 1)]
                      /\ log[i - 2] = [op |-> "call", batch |-> log[i].batch,
                                       attempt |-> log[i].attempt - 1]
          /\ IsBackoff(log[i]) =>
                /\ i > 1
                /\ log[i - 1].op = "call"
                /\ log[i].seconds = 2 ^ log[i - 1].attempt
                /\ IF i = Len(log)
                   THEN pc = "call" /\ attempt = log[i - 1].attempt + 1
                   ELSE log[i + 1] = [op |-> "call", batch |-> log[i - 1].batch,
                                      attempt |-> log[i - 1].attempt + 1]

\* the first batch took three attempts, after waits of 1 and 2 seconds
C17_Witness ==
    /\ Len(log) >= 5
    /\ SubSeq(log, 1, 5) =
          << [op |-> "call", batch |-> 1, attempt |-> 0],
             [op |-> "sleep", seconds |-> 1],
             [op |-> "call", batch |-> 1, attempt |-> 1],
             [op |-> "sleep", seconds |-> 2],
             [op |-> "call", batch |-> 1, attempt |-> 2] >>
    /\ batches_done >= 1

\* the reply is one the claim calls invalid: no JSON object in it, or an
\* object without one of the three parts, or with an analysis_summary
\* without one of the two numbers
LacksKeys(reply) ==
    \/ reply.found = "none"
    \/ /\ reply.found = "object"
       /\ \/ ~({"analysis_summary", "experience_distribution",
                "career_insights"} \subseteq DOMAIN reply.json)
          \/ ~IsDict(reply.json.analysis_summary)
          \/ ~({"total_professionals_analyzed", "average_years_experience"}
                 \subseteq DOMAIN reply.json.analysis_summary)

\* C18: the batch result for a reply without the required keys is the
\* text-only wrapper of the raw reply text, with zero counts and rates, or
\* the local computation over the records of the batch
C18_InvalidReplyIsWrappedOrLocal ==
    [][\A outcome \in ServiceOutcomes :
          (/\ pc = "call"
           /\ outcome.kind = "reply"
           /\ LacksKeys(outcome.reply)
           /\ Attempt(outcome))
          => /\ BatchWasKept
             /\ \/ KeptResult =
                      WithBatchInfo(_parse_text_analysis(outcome.reply.text),
                                    batches_done + 1, TotalBatches,
                                    Len(CurrentBatch))
                \/ CarriesLocalMetrics(KeptResult, CurrentBatch)]_vars


-----------------------------------------------------------------------------
(* Claims about calculate_experience_metrics as a function of its input *)

HasExperienceKey(prof) == "experience" \in DOMAIN prof

\* C20: the metrics of a batch are those of the batch in which every record
\* without the experience key has the key with an empty list; the total
\* counts such a record, and every other field is what the batch without
\* these records gives
C20_MissingExperienceIsEmpty ==
    pc = "metrics" =>
        \E rest \in {calculate_experience_metrics(
                         SelectSeq(professionals, HasExperienceKey))} :
           /\ ret.value =
                 calculate_experience_metrics(WithEmptyExperience(professionals))
           /\ ret.value.total_professionals = Len(professionals)
           /\ DOMAIN ret.value = DOMAIN rest
           /\ \A k \in DOMAIN rest \ {"total_professionals"} :
                 ret.value[k] = rest[k]

\* the metrics of a batch holding a record without the key next to a record
\* with counted years
C20_Witness ==
    /\ pc = "metrics"
    /\ \E i \in 1..Len(professionals) : ~HasExperienceKey(professionals[i])
    /\ ret.value.professionals_with_experience >= 1
    /\ ret.value.total_professionals > ret.value.professionals_with_experience
    /\ ret.value.average_job_tenure > 0


-----------------------------------------------------------------------------
(* Claims about the batches of a run and what the run merges *)

\* the run ended at line 98: the store gave no professionals
EndedWithoutBatch == pc = "done" /\ batches_done = 0

\* C21: a run over a store that gives no professionals ends with the empty
\* analysis (status "no_data", no professional analysed, all insights 0)
\* without a service call, a wait or a merge; a store that holds none
\* always gives none
C21_EmptyStoreGivesNoData ==
    /\ (pc = "done" /\ professionals = <<>>) => batches_done = 0
    /\ EndedWithoutBatch =>
          /\ log = <<>>
          /\ all_results = <<>>
          /\ ret.value.status = "no_data"
          /\ ret.value.analysis_summary.total_professionals_analyzed = 0
          /\ ret.value.analysis_summary.professionals_with_experience_data = 0
          /\ \A k \in DOMAIN ret.value.career_insights :
                ret.value.career_insights[k] = 0

\* the run over the empty store has ended
C21_Witness ==
    /\ EndedWithoutBatch
    /\ professionals = <<>>
    /\ ret.op = "analyze"
    /\ ret.value.status = "no_data"


\* the batches put end to end
RECURSIVE Chained(_)
Chained(batches) ==
    IF batches = <<>> THEN <<>> ELSE Head(batches) \o Chained(Tail(batches))

\* the batches are those of the claim for a list of length n cut by size
CutsWell(batches, n, size) ==
    /\ Len(batches) >= 1
    /\ (Len(batches) - 1) * size < n
    /\ n <= Len(batches) * size
    /\ \A b \in 1..(Len(batches) - 1) : Len(batches[b]) = size
    /\ Len(batches[Len(batches)]) \in 1..size

\* C22: the n > 0 records of the store are cut into ceil(n / batch_size)
\* batches; all but the last hold batch_size records, the last holds 1 to
\* batch_size; end to end the batches are the store, so each record is in
\* one batch and in store order; the run takes the batches one at a time in
\* this order and has taken all of them when it ends; with the batch size
\* 75 of line 103 the cut is the same for stores around one and two batches
C22_BatchesPartitionTheStore ==
    \E batches \in {BatchesAt(professionals, BatchSize)} :
       /\ professionals /= <<>> =>
             /\ CutsWell(batches, Len(professionals), BatchSize)
             /\ Chained(batches) = professionals
       /\ pc = "start" =>
             \A n \in {1, 74, 75, 76, 150, 151} :
                \E places \in {[i \in 1..n |-> i]} :
                   /\ CutsWell(BatchesAt(places, 75), n, 75)
                   /\ Chained(BatchesAt(places, 75)) = places
       /\ \A i, j \in 1..Len(log) :
             (i < j /\ log[i].op = "call" /\ log[j].op = "call")
                => log[i].batch <= log[j].batch
       /\ \A i \in 1..Len(log) :
             log[i].op = "call" => log[i].batch = batches_done + 1
                                   \/ log[i].batch <= batches_done
       /\ pc \in {"batch", "call"} => batches_done < Len(batches)
       /\ (pc = "done" /\ batches_done > 0) => batches_done = Len(batches)

\* a run over three records has ended: a full batch, then a batch of one,
\* each sent to the service
C22_Witness ==
    /\ pc = "done"
    /\ Len(professionals) = 3
    /\ batches_done = 2
    /\ Len(BatchesAt(professionals, BatchSize)[1]) = BatchSize
    /\ Len(BatchesAt(professionals, BatchSize)[2]) = 1
    /\ \E i, j \in 1..Len(log) :
          /\ i < j
          /\ log[i].op = "call" /\ log[i].batch = 1
          /\ log[j].op = "call" /\ log[j].batch = 2


IsCall(e) == e.op = "call"
IsMinute(e) == e.op = "sleep" /\ e.seconds = 60
Minutes == {i \in 1..Len(log) : IsMinute(log[i])}

\* calls i < j with no call between them
NextCalls(i, j) ==
    /\ i < j
    /\ IsCall(log[i]) /\ IsCall(log[j])
    /\ \A m \in (i + 1)..(j - 1) : ~IsCall(log[m])

\* a run over at least one batch has ended with as many minutes of wait as
\* it has batches, less one
OneMinuteLessThanBatches ==
    (pc = "done" /\ batches_done > 0) =>
        Cardinality(Minutes) = Len(BatchesAt(professionals, BatchSize)) - 1

\* C23 as stated: a wait of 60 seconds lies between any two service calls
\* that follow each other, and a run of B batches has B - 1 such waits
C23_MinuteBetweenAnyTwoCalls ==
    /\ \A i, j \in 1..Len(log) :
          NextCalls(i, j) => \E m \in (i + 1)..(j - 1) : IsMinute(log[m])
    /\ OneMinuteLessThanBatches

\* C23: a wait of 60 seconds follows every batch but the last, whether the
\* batch gave a result or not: between calls for different batches lies at
\* least one such wait, between two attempts for the same batch lies only
\* the wait of 2^k seconds, and a run of B batches has B - 1 waits of 60
\* seconds
C23_MinuteBetweenBatches ==
    /\ \A i, j \in 1..Len(log) :
          NextCalls(i, j) =>
             IF log[i].batch = log[j].batch
             THEN /\ j = i + 2
                  /\ log[i + 1] = [op |-> "sleep",
                                   seconds |-> 2 ^ log[i].attempt]
                  /\ log[i + 1].seconds < 60
             ELSE \E m \in (i + 1)..(j - 1) : IsMinute(log[m])
    /\ pc \in {"batch", "call"} => Cardinality(Minutes) = batches_done
    /\ OneMinuteLessThanBatches

\* a run of two batches: the first was tried twice, a second apart, the
\* second was called a minute after the first
C23_Witness ==
    /\ pc = "done"
    /\ batches_done = 2
    /\ Len(log) >= 5
    /\ SubSeq(log, 1, 5) =
          << [op |-> "call", batch |-> 1, attempt |-> 0],
             [op |-> "sleep", seconds |-> 1],
             [op |-> "call", batch |-> 1, attempt |-> 1],
             [op |-> "sleep", seconds |-> 60],
             [op |-> "call", batch |-> 2, attempt |-> 0] >>
    /\ Cardinality(Minutes) = 1


\* the run has ended after its batches and the merge of what it kept did
\* not raise
Merged == pc = "done" /\ all_results /= <<>> /\ ~MergeRaised

RECURSIVE CountSum(_)
CountSum(details) ==
    IF details = <<>> THEN 0
    ELSE Head(details).professionals_analyzed + CountSum(Tail(details))

-----------------------------------------------------------------------------
(* Claims about the progression patterns and the stability score *)

\* the lower-cased title of entry j of a record
TitleAt(prof, j) == Lower(Get(ExperienceOf(prof)[j], "position", EmptyStr).s)

\* a title with word w occurs among the entries from..to of the record
WordAmong(prof, w, from, to) ==
    \E j \in from..to : Contains(w, TitleAt(prof, j))

\* the condition of the claim on a record of at least two entries
ShowsProgression(prof) ==
    LET n == Len(ExperienceOf(prof))
    IN  \/ \E pair \in { <<Kw_junior, Kw_senior>>, <<Kw_assistant, Kw_manager>>,
                         <<Kw_developer, Kw_lead>>, <<Kw_analyst, Kw_director>> } :
              WordAmong(prof, pair[1], 1, n - 1) /\ WordAmong(prof, pair[2], 2, n)
        \/ /\ \E w \in {Kw_junior, Kw_assistant, Kw_associate, Kw_entry, Kw_intern} :
                 WordAmong(prof, w, 1, 1)
           /\ \E w \in {Kw_senior, Kw_lead, Kw_principal, Kw_director, Kw_manager,
                        Kw_head, Kw_chief, Kw_vp, Kw_clevel} :
                 WordAmong(prof, w, n, n)

HasCompanyName(prof) ==
    \E j \in 1..Len(ExperienceOf(prof)) :
        Truthy(Get(ExperienceOf(prof)[j], "companyName", EmptyStr))

-----------------------------------------------------------------------------
(* Claims about the errors of a service call *)

\* the message of the exception that attempt meets with this outcome, or
\* <<>> when it meets none: the service raised, or the handling of its reply
\* did (lines 258-259)
ErrorMet(outcome) ==
    IF outcome.kind = "error" THEN outcome.message
    ELSE IF HandleReply(outcome.reply).raised
    THEN HandleReply(outcome.reply).message
    ELSE <<>>

\* the message has one of the three words, written as they are
HasTimeoutWord(msg) ==
    \/ Contains(<<"5","0","4">>, msg)
    \/ Contains(<<"t","i","m","e","o","u","t">>, msg)
    \/ Contains(<<"d","e","a","d","l","i","n","e">>, msg)

\* the message has "504", or "timeout" or "deadline" in any mix of cases
HasTimeoutWordAnyCase(msg) ==
    \/ Contains(<<"5","0","4">>, msg)
    \/ Contains(<<"t","i","m","e","o","u","t">>, Lower(msg))
    \/ Contains(<<"d","e","a","d","l","i","n","e">>, Lower(msg))

\* the step is an attempt that ends its batch with no result: the call is
\* logged, the batch is over and nothing is kept for it, and what is logged
\* after the call is at most the minute before the next batch (no backoff,
\* no further call, and no merge of a result of this batch)
EndsBatchWithoutResult ==
    /\ batches_done' = batches_done + 1
    /\ all_results' = all_results
    /\ Len(log') > Len(log)
    /\ log'[Len(log) + 1] = [op |-> "call", batch |-> batches_done + 1,
                            attempt |-> attempt]
    /\ \A i \in (Len(log) + 2)..Len(log') :
          \/ log'[i] = [op |-> "sleep", seconds |-> 60]
          \/ log'[i] = [op |-> "merge", results |-> Len(all_results)]

\* the step goes on to another attempt for the same batch
GoesToNextAttempt ==
    /\ pc' = "call"
    /\ batches_done' = batches_done
    /\ attempt' = attempt + 1

\* with IsTimeout telling the timeouts: an attempt that meets an error that
\* is not one ends the batch without result, and an attempt is followed by
\* another only when it met an error that is one
OnlyTimeoutsRetried(IsTimeout(_)) ==
    \A outcome \in ServiceOutcomes :
        Attempt(outcome) =>
            /\ (ErrorMet(outcome) /= <<>> /\ ~IsTimeout(ErrorMet(outcome)))
                  => EndsBatchWithoutResult
            /\ GoesToNextAttempt
                  => (ErrorMet(outcome) /= <<>> /\ IsTimeout(ErrorMet(outcome)))

-----------------------------------------------------------------------------
(* Claims about the order of the reported numbers *)

\* C29: when some record of the batch has total years above 0, the metrics
\* have 0 < min_years <= median_years <= max_years, average_years between
\* min_years and max_years, and between 1 and total_professionals records
\* with experience (years in hundredths; the totals of the batches are whole
\* hundredths, so that rounding moves neither the mean nor the median past
\* min_years or max_years)
C29_MetricsAreOrdered ==
    pc = "metrics" =>
        LET n == Cardinality(WithYears(Totals(professionals)))
            v == ret.value
        IN  n > 0 =>
              /\ 0 < v.min_years
              /\ v.min_years <= v.median_years
              /\ v.median_years <= v.max_years
              /\ v.min_years <= v.average_years
              /\ v.average_years <= v.max_years
              /\ 1 <= v.professionals_with_experience
              /\ v.professionals_with_experience <= v.total_professionals

\* three records of different totals, and a batch with a record that does
\* not count: every inequality is strict somewhere
C29_Witness ==
    /\ pc = "metrics"
    /\ ret.value.professionals_with_experience >= 1
    /\ \/ /\ ret.value.min_years < ret.value.median_years
          /\ ret.value.median_years < ret.value.max_years
          /\ ret.value.average_years > ret.value.median_years
       \/ /\ ret.value.professionals_with_experience
                < ret.value.total_professionals
          /\ ret.value.min_years < ret.value.average_years
          /\ ret.value.average_years < ret.value.max_years


-----------------------------------------------------------------------------
(* Claims about the wait for an actor run *)

IsPoll(e) == e.op = "poll"
SawStatus(e, statuses) ==
    IsPoll(e) /\ e.reply.kind = "reply" /\ e.reply.code = 200
              /\ e.reply.status \in statuses

\* the dataset is requested right after a poll answered SUCCEEDED and at no
\* other place; that poll ends the wait with true
FetchOnlyAfterSucceeded ==
    /\ \A i \in 1..Len(log) :
          log[i].op = "dataset" =>
              i > 1 /\ SawStatus(log[i - 1], {"SUCCEEDED"})
    /\ \A i \in 1..Len(log) :
          SawStatus(log[i], {"SUCCEEDED"}) =>
              IF i = Len(log) THEN pc = "fetch" ELSE log[i + 1].op = "dataset"
    /\ pc = "fetch" => SawStatus(log[Len(log)], {"SUCCEEDED"})

\* a poll that finds the run under way is followed by a sleep of 10 seconds
\* and then by the next poll
KeepsPollingWhileUnderWay ==
    \A i \in 1..Len(log) :
        (IsPoll(log[i]) /\ SawStatus(log[i], {"READY", "RUNNING"})) =>
            /\ i < Len(log)
            /\ log[i + 1] = [op |-> "sleep", seconds |-> 10]
            /\ IF i + 1 = Len(log) THEN pc = "wait" ELSE IsPoll(log[i + 2])

\* a poll answered FAILED, ABORTED or TIMED-OUT, with another code than 200
\* or by an exception is the last request: the operation has returned []
FailedWaitReturnsEmpty ==
    \A i \in 1..Len(log) :
        (IsPoll(log[i]) /\ ~SawStatus(log[i], {"READY", "RUNNING", "SUCCEEDED"})) =>
            /\ \/ SawStatus(log[i], {"FAILED", "ABORTED", "TIMED-OUT"})
               \/ log[i].reply.kind = "exception"
               \/ log[i].reply.code /= 200
            /\ i = Len(log)
            /\ pc = "done"
            /\ ret = [op |-> "apify", value |-> <<>>]

\* the wait is on and the run has reached a terminal status
WaitsOnEndedRun == pc = "wait" /\ run_status \in Terminal

\* C30: the dataset is fetched only right after a poll that saw SUCCEEDED;
\* the wait polls again, after 10 seconds, while it sees a run under way; a
\* poll that sees FAILED, ABORTED or TIMED-OUT, one answered with another
\* code than 200 and one that raises end the operation with [] and no fetch;
\* and once the run has reached a terminal status the wait returns
C30_FetchOnlyAfterSucceededAndWaitReturns ==
    /\ [](FetchOnlyAfterSucceeded /\ KeepsPollingWhileUnderWay
             /\ FailedWaitReturnsEmpty)
    /\ (WaitsOnEndedRun ~> pc /= "wait")

\* the run was seen READY, then RUNNING, then SUCCEEDED, and only then the
\* dataset was fetched
C30_Witness ==
    /\ pc = "done"
    /\ Len(log) = 7
    /\ SawStatus(log[2], {"READY"})
    /\ SawStatus(log[4], {"RUNNING"})
    /\ log[5] = [op |-> "sleep", seconds |-> 10]
    /\ SawStatus(log[6], {"SUCCEEDED"})
    /\ log[7] = [op |-> "dataset", items |-> 2]
    /\ Len(ret.value) = 2

=============================================================================
